---- MODULE Spec2Model ----
(***************************************************************************)
(* DirectInput joystick driver (src/src/win/wjoydxnu.c).                   *)
(*                                                                         *)
(* Three threads share the driver: the primary thread (init, exit, get,    *)
(* release, get_state), the joystick thread (joydx_thread_proc) and the    *)
(* window thread (acquire / unacquire).                                    *)
(*                                                                         *)
(* Representation choices:                                                 *)
(*  - a DWORD is represented by the int it converts to under (int)value    *)
(*    (two's complement, 32 bit); v % 256 is then its low byte;            *)
(*  - a float position is the exact rational <<n, d>> (n / d, d > 0);      *)
(*  - an array is kept as the function from the indices of its non-zero    *)
(*    elements to their values, and a table of per-slot records as the     *)
(*    function from the slots written so far: memory that still holds the  *)
(*    zeroes of static storage (or of memset) is left out of the state;    *)
(*  - ASSERT is compiled out unless DEBUGMODE is defined, so an ASSERT is  *)
(*    a statement about the state and not a branch of the program.         *)
(***************************************************************************)
EXTENDS Integers, Sequences, FiniteSets, TLC

(* ----------------------------- constants ------------------------------ *)

MAX_JOYSTICKS == 8

MAX_SLIDERS == 2

MAX_POVS == 4

MAX_BUTTONS == 32

DEVICE_BUFFER_SIZE == 10

\* joydx_init asserts _AL_MAX_JOYSTICK_STICKS >= 2 + MAX_SLIDERS + MAX_POVS
AL_MAX_JOYSTICK_STICKS == 2 + MAX_SLIDERS + MAX_POVS

\* the divisor of handle_axis_event, also lMax of the configured range
AXIS_RANGE == 32767

\* the intensity handle_button_event stores for a pressed button
BUTTON_DOWN_VALUE == 32767

JOY_POVFORWARD == 0

JOY_POVRIGHT == 9000

JOY_POVBACKWARD == 18000

JOY_POVLEFT == 27000

JOY_POVFORWARD_WRAP == 36000

\* JOY_POVCENTERED, (WORD)-1, and the DWORD -1 some drivers report instead
JOY_POVCENTERED == 65535

\* offsets into DIJOYSTATE (c_dfDIJoystick): six LONG axes, two LONG
\* sliders, four DWORD POVs, thirty-two BYTE buttons
DIJOFS_X == 0

DIJOFS_Y == 4

DIJOFS_Z == 8

DIJOFS_RX == 12

DIJOFS_RY == 16

DIJOFS_RZ == 20

DIJOFS_SLIDER0 == 24

DIJOFS_POV0 == 32

DIJOFS_BUTTON0 == 48

DIJOFS_SLIDER(n) == DIJOFS_SLIDER0 + 4 * n

DIJOFS_POV(n) == DIJOFS_POV0 + 4 * n

DIJOFS_BUTTON(n) == DIJOFS_BUTTON0 + n

DIJOFS_BUTTON1 == DIJOFS_BUTTON(1)

AL_EVENT_JOYSTICK_AXIS == "AXIS"

AL_EVENT_JOYSTICK_BUTTON_DOWN == "BUTTON_DOWN"

AL_EVENT_JOYSTICK_BUTTON_UP == "BUTTON_UP"

AL_ALL_JOYSTICK_EVENTS ==
  {AL_EVENT_JOYSTICK_AXIS, AL_EVENT_JOYSTICK_BUTTON_DOWN, AL_EVENT_JOYSTICK_BUTTON_UP}

(* ----------------------------- data types ----------------------------- *)

\* a float, as an exact rational
Float(n, d) == <<n, d>>

FloatEq(p, q) == p[1] * q[2] = q[1] * p[2]

FloatZero == Float(0, 1)

\* arrays with zeroes left out: read element i, write element i
Get(arr, i, zero) == IF i \in DOMAIN arr THEN arr[i] ELSE zero

Put(arr, i, v, zero) ==
  IF v = zero
  THEN [k \in DOMAIN arr \ {i} |-> arr[k]]
  ELSE [k \in DOMAIN arr \cup {i} |-> IF k = i THEN v ELSE arr[k]]

\* AXIS_MAPPING
AxisMapping(s, a) == [stick |-> s, axis |-> a]

\* CAPS_AND_NAMES after memset: nothing present
ZeroCaps ==
  [have |-> [n \in {"x", "y", "z", "rx", "ry", "rz"} |-> FALSE],
   num_sliders |-> 0, num_povs |-> 0, num_buttons |-> 0]

\* _AL_JOYSTICK_INFO after memset
ZeroInfo ==
  [num_sticks |-> 0,
   num_axes |-> [s \in 0..(AL_MAX_JOYSTICK_STICKS - 1) |-> 0],
   num_buttons |-> 0]

\* AL_JOYSTATE after memset
ZeroJoystate == [stick |-> <<>>, button |-> <<>>]

\* joystate.stick[s].axis[a]
StickAxis(js, s, a) == Get(js.stick, <<s, a>>, FloatZero)

\* joystate.stick[s].axis[a] = pos (0.0 is kept in one form)
SetStickAxis(js, s, a, pos) ==
  [js EXCEPT !.stick = Put(@, <<s, a>>, IF pos[1] = 0 THEN FloatZero ELSE pos, FloatZero)]

\* joystate.button[b]
Button(js, b) == Get(js.button, b, 0)

\* joystate.button[b] = v
SetButton(js, b, v) == [js EXCEPT !.button = Put(@, b, v, 0)]

\* AL_JOYSTICK_DIRECTX after the memset of joystick_enum_callback (and of
\* static storage): every mapping is (0, 0), every pov stick is 0
ZeroJoystick ==
  [caps_and_names |-> ZeroCaps,
   info |-> ZeroInfo,
   gotten |-> FALSE,
   joystate |-> ZeroJoystate,
   device |-> "NULL",
   mapping |-> [n \in {"x", "y", "z", "rx", "ry", "rz"} |-> AxisMapping(0, 0)],
   slider_mapping |-> [i \in 0..(MAX_SLIDERS - 1) |-> AxisMapping(0, 0)],
   pov_mapping_stick |-> [i \in 0..(MAX_POVS - 1) |-> 0]]

(* ------------------------ logical layout builder ---------------------- *)

\* the block with the axis index taken from the axis's canonical position
\* (X, RX: 0; Y, RY: 1; Z, RZ: 2)
FillAxis_Canonical(joy, name) ==
  IF joy.caps_and_names.have[name]
  THEN LET ns == joy.info.num_sticks
           na == joy.info.num_axes[ns]
           pos == IF name \in {"x", "rx"} THEN 0 ELSE IF name \in {"y", "ry"} THEN 1 ELSE 2
       IN [joy EXCEPT !.mapping[name] = AxisMapping(ns, pos),
                      !.info.num_axes[ns] = na + 1]
  ELSE joy

\* one "if (can->have_X) { ... N_AXIS++; }" block
FillAxis(joy, name) ==
  IF joy.caps_and_names.have[name]
  THEN LET ns == joy.info.num_sticks
           na == joy.info.num_axes[ns]
       IN [joy EXCEPT !.mapping[name] = AxisMapping(ns, na),
                      !.info.num_axes[ns] = na + 1]
  ELSE joy

\* one "if (have_a || have_b || have_c) { ...; N_STICK++; }" block
FillStick(joy, a, b, c) ==
  IF joy.caps_and_names.have[a] \/ joy.caps_and_names.have[b] \/ joy.caps_and_names.have[c]
  THEN LET j3 == FillAxis(FillAxis(FillAxis(joy, a), b), c)
       IN [j3 EXCEPT !.info.num_sticks = @ + 1]
  ELSE joy

\* the slider loop with all sliders on one stick
RECURSIVE FillSliders_OneStick(_, _)
FillSliders_OneStick(joy, i) ==
  IF i < joy.caps_and_names.num_sliders
  THEN LET ns == joy.info.num_sticks
       IN FillSliders_OneStick([joy EXCEPT !.info.num_axes[ns] = 1,
                                           !.slider_mapping[i] = AxisMapping(ns, 0)], i + 1)
  ELSE IF joy.caps_and_names.num_sliders > 0
       THEN [joy EXCEPT !.info.num_sticks = @ + 1]
       ELSE joy

\* the slider loop, from index i on
RECURSIVE FillSliders(_, _)
FillSliders(joy, i) ==
  IF i < joy.caps_and_names.num_sliders
  THEN LET ns == joy.info.num_sticks
       IN FillSliders([joy EXCEPT !.info.num_axes[ns] = 1,
                                  !.slider_mapping[i] = AxisMapping(ns, 0),
                                  !.info.num_sticks = ns + 1], i + 1)
  ELSE joy

\* the POV loop, from index i on
RECURSIVE FillPovs(_, _)
FillPovs(joy, i) ==
  IF i < joy.caps_and_names.num_povs
  THEN LET ns == joy.info.num_sticks
       IN FillPovs([joy EXCEPT !.info.num_axes[ns] = 2,
                               !.pov_mapping_stick[i] = ns,
                               !.info.num_sticks = ns + 1], i + 1)
  ELSE joy

fill_joystick_info_using_caps_and_names(joy) ==
  LET j1 == FillStick(joy, "x", "y", "z")
      j2 == FillStick(j1, "rx", "ry", "rz")
      j3 == FillSliders(j2, 0)
      j4 == FillPovs(j3, 0)
  IN [j4 EXCEPT !.info.num_buttons = joy.caps_and_names.num_buttons]

(* --------------------------- event generation ------------------------- *)

\* an AL_EVENT (the timestamp is left out)
JoyEvent(type, stick, axis, pos, button) ==
  [type |-> type, stick |-> stick, axis |-> axis, pos |-> pos, button |-> button]

\* A drain context: the device record being updated, the event types some
\* subscriber wants, the events emitted so far, and how many times the
\* event source was asked for an unused event.  slots[k] tells whether the
\* k-th request of the drain is served.
Ctx(joy, wants, slots) ==
  [joy |-> joy, wants |-> wants, slots |-> slots, out |-> <<>>, asked |-> 0]

\* _al_event_source_needs_to_generate_event
NeedsToGenerateEvent(c, type) == type \in c.wants

\* the tail without "if (!event) return;"
EmitIfSlot_NoCheck(c, ev) == [c EXCEPT !.asked = @ + 1, !.out = Append(@, ev)]

\* the tail of generate_*_event: get an unused event, fill it, emit it
EmitIfSlot(c, ev) ==
  LET k == c.asked + 1
      c1 == [c EXCEPT !.asked = k]
  IN IF k \in DOMAIN c.slots /\ c.slots[k]
     THEN [c1 EXCEPT !.out = Append(@, ev)]
     ELSE c1

\* the event filled with stick and axis in each other's place
generate_axis_event_Swapped(c, stick, axis, pos) ==
  IF ~NeedsToGenerateEvent(c, AL_EVENT_JOYSTICK_AXIS)
  THEN c
  ELSE EmitIfSlot(c, JoyEvent(AL_EVENT_JOYSTICK_AXIS, axis, stick, pos, 0))

generate_axis_event(c, stick, axis, pos) ==
  IF ~NeedsToGenerateEvent(c, AL_EVENT_JOYSTICK_AXIS)
  THEN c
  ELSE EmitIfSlot(c, JoyEvent(AL_EVENT_JOYSTICK_AXIS, stick, axis, pos, 0))

generate_button_event(c, button, event_type) ==
  IF ~NeedsToGenerateEvent(c, event_type)
  THEN c
  ELSE EmitIfSlot(c, JoyEvent(event_type, 0, 0, FloatZero, button))

(* ------------------------------ handlers ------------------------------ *)

\* the raw value read as an unsigned 16-bit quantity
AxisPos_Unsigned(value) == Float(value % 65536, AXIS_RANGE)

\* pos = (int)value / 32767.0
AxisPos(value) == Float(value, AXIS_RANGE)

handle_axis_event(c, axis_mapping, value) ==
  LET stick == axis_mapping.stick
      axis == axis_mapping.axis
  IN IF stick < 0 \/ stick >= c.joy.info.num_sticks
     THEN c
     ELSE IF axis < 0 \/ axis >= c.joy.info.num_axes[stick]
     THEN c
     ELSE LET pos == AxisPos(value)
              c1 == [c EXCEPT !.joy.joystate = SetStickAxis(@, stick, axis, pos)]
          IN generate_axis_event(c1, stick, axis, pos)

\* the left / right branch with the boundaries included
PovAxis0_Inclusive(value) ==
  IF value >= JOY_POVBACKWARD /\ value <= JOY_POVFORWARD_WRAP THEN Float(-1, 1)
  ELSE IF value >= JOY_POVFORWARD /\ value < JOY_POVBACKWARD THEN Float(1, 1)
  ELSE Float(0, 1)

\* the left / right branch of handle_pov_event
PovAxis0(value) ==
  IF value > JOY_POVBACKWARD /\ value < JOY_POVFORWARD_WRAP THEN Float(-1, 1)
  ELSE IF value > JOY_POVFORWARD /\ value < JOY_POVBACKWARD THEN Float(1, 1)
  ELSE Float(0, 1)

\* the forward / backward branch without the wrap-around value
PovAxis1_NoWrap(value) ==
  IF (value > JOY_POVLEFT /\ value < JOY_POVFORWARD_WRAP)
     \/ (value >= JOY_POVFORWARD /\ value < JOY_POVRIGHT) THEN Float(-1, 1)
  ELSE IF value > JOY_POVRIGHT /\ value < JOY_POVLEFT THEN Float(1, 1)
  ELSE Float(0, 1)

\* the forward / backward branch of handle_pov_event
PovAxis1(value) ==
  IF (value > JOY_POVLEFT /\ value <= JOY_POVFORWARD_WRAP)
     \/ (value >= JOY_POVFORWARD /\ value < JOY_POVRIGHT) THEN Float(-1, 1)
  ELSE IF value > JOY_POVRIGHT /\ value < JOY_POVLEFT THEN Float(1, 1)
  ELSE Float(0, 1)

\* an event for every hat delta, changed or not
PovChanged_Always(old_p, p) == TRUE

\* "if (old_p != p) generate_axis_event(...)"
PovChanged(old_p, p) == ~FloatEq(old_p, p)

handle_pov_event(c, stick, value) ==
  IF stick < 0 \/ stick >= c.joy.info.num_sticks
  THEN c
  ELSE LET old_p0 == StickAxis(c.joy.joystate, stick, 0)
           old_p1 == StickAxis(c.joy.joystate, stick, 1)
           p0 == PovAxis0(value)
           p1 == PovAxis1(value)
           c1 == [c EXCEPT !.joy.joystate =
                             SetStickAxis(SetStickAxis(@, stick, 0, p0), stick, 1, p1)]
           c2 == IF PovChanged(old_p0, p0) THEN generate_axis_event(c1, stick, 0, p0) ELSE c1
       IN IF PovChanged(old_p1, p1) THEN generate_axis_event(c2, stick, 1, p1) ELSE c2

\* "if (button < 0 && button >= num_buttons) return;"
ButtonRejected(joy, button) == button < 0 /\ button >= joy.info.num_buttons

\* the intensity stored as a truth value
ButtonValue_Bool(down) == IF down THEN 1 ELSE 0

\* the intensity stored by handle_button_event
ButtonValue(down) == IF down THEN BUTTON_DOWN_VALUE ELSE 0

handle_button_event(c, button, down) ==
  IF ButtonRejected(c.joy, button)
  THEN c
  ELSE LET c1 == [c EXCEPT !.joy.joystate = SetButton(@, button, ButtonValue(down))]
       IN generate_button_event(c1, button,
            IF down THEN AL_EVENT_JOYSTICK_BUTTON_DOWN ELSE AL_EVENT_JOYSTICK_BUTTON_UP)

\* (dwData & 0x80), converted to bool
ButtonDown(dwData) == (dwData % 256) \div 128 = 1

\* the default branch without the test against num_buttons
ButtonInRange_LowerOnly(joy, dwOfs) == dwOfs >= DIJOFS_BUTTON0

\* the default branch of the switch in update_joystick
ButtonInRange(joy, dwOfs) ==
  dwOfs >= DIJOFS_BUTTON0 /\ dwOfs < DIJOFS_BUTTON(joy.info.num_buttons)

\* an item of DIDEVICEOBJECTDATA: raw offset and raw value
Item(ofs, data) == [dwOfs |-> ofs, dwData |-> data]

\* the body of the for loop of update_joystick: one item
DispatchItem(c, item) ==
  LET dwOfs == item.dwOfs
      dwData == item.dwData
      joy == c.joy
  IN CASE dwOfs = DIJOFS_X -> handle_axis_event(c, joy.mapping["x"], dwData)
       [] dwOfs = DIJOFS_Y -> handle_axis_event(c, joy.mapping["y"], dwData)
       [] dwOfs = DIJOFS_Z -> handle_axis_event(c, joy.mapping["z"], dwData)
       [] dwOfs = DIJOFS_RX -> handle_axis_event(c, joy.mapping["rx"], dwData)
       [] dwOfs = DIJOFS_RY -> handle_axis_event(c, joy.mapping["ry"], dwData)
       [] dwOfs = DIJOFS_RZ -> handle_axis_event(c, joy.mapping["rz"], dwData)
       [] dwOfs = DIJOFS_SLIDER(0) -> handle_axis_event(c, joy.slider_mapping[0], dwData)
       [] dwOfs = DIJOFS_SLIDER(1) -> handle_axis_event(c, joy.slider_mapping[1], dwData)
       [] dwOfs = DIJOFS_POV(0) -> handle_pov_event(c, joy.pov_mapping_stick[0], dwData)
       [] dwOfs = DIJOFS_POV(1) -> handle_pov_event(c, joy.pov_mapping_stick[1], dwData)
       [] dwOfs = DIJOFS_POV(2) -> handle_pov_event(c, joy.pov_mapping_stick[2], dwData)
       [] dwOfs = DIJOFS_POV(3) -> handle_pov_event(c, joy.pov_mapping_stick[3], dwData)
       [] OTHER ->
            IF ButtonInRange(joy, dwOfs)
            THEN LET num == (dwOfs - DIJOFS_BUTTON0) \div (DIJOFS_BUTTON1 - DIJOFS_BUTTON0)
                 IN handle_button_event(c, num, ButtonDown(dwData))
            ELSE c

(* ------------------------------- state -------------------------------- *)

VARIABLES
  joystick_dinput,      \* LPDIRECTINPUT: "NULL", "open" or "released" (dangling)
  joydx_num_joysticks,
  joydx_joystick,       \* [slot -> AL_JOYSTICK_DIRECTX], slot in 0..MAX_JOYSTICKS-1
  joydx_thread,         \* "NULL" or "handle"
  joydx_thread_cs,      \* [state: "uninit" | "init" | "deleted", owner]
  joydx_thread_wakers,  \* [index -> [h: "NULL" | "event" | "timer", signaled]]
  es,                   \* parent.es of every slot: [live, owner, wants]
  dinput,               \* the DirectInput device behind every slot
  main,                 \* the primary thread
  poller,               \* the joystick thread
  ui,                   \* the window thread
  committed,            \* per slot, joystate at the last release of the event-source lock
  nMut,                 \* per slot, number of deltas applied to joystate
  evMut,                \* per slot, nMut when the latest event was emitted
  nDeltas               \* number of deltas the hardware has produced

vars ==
  <<joystick_dinput, joydx_num_joysticks, joydx_joystick, joydx_thread, joydx_thread_cs,
    joydx_thread_wakers, es, dinput, main, poller, ui, committed, nMut, evMut,
    nDeltas>>

\* the slots of the tables that were written so far
Slots == DOMAIN joydx_joystick

\* STOP_EVENT is joydx_thread_wakers[0], JOYSTICK_WAKER(n) is [1 + n]
STOP_EVENT == 0

JOYSTICK_WAKER(n) == 1 + n

\* a HANDLE variable: h is what the variable holds; live counts the system
\* objects created through it that were not closed yet
NullHandle == [h |-> "NULL", signaled |-> FALSE, live |-> 0]

\* CreateEvent(NULL, FALSE, FALSE, NULL), assigned to the variable
CreateEvent(w) == [h |-> "event", signaled |-> FALSE, live |-> w.live + 1]

\* CreateWaitableTimer(NULL, FALSE, NULL), assigned to the variable
CreateWaitableTimer(w, ok) ==
  IF ok
  THEN [h |-> "timer", signaled |-> FALSE, live |-> w.live + 1]
  ELSE [h |-> "NULL", signaled |-> FALSE, live |-> w.live]

\* CloseHandle on the variable's handle
CloseHandle(w) == [w EXCEPT !.live = @ - 1]

\* the variable = NULL
NullOf(w) == [h |-> "NULL", signaled |-> FALSE, live |-> w.live]

\* an event source that was never initialised, or was freed
DeadEs == [live |-> FALSE, owner |-> "none", wants |-> {}]

\* a slot with no DirectInput device; live counts the references to device
\* objects taken for the slot and not released yet
NoDevice ==
  [dev |-> "none", acquired |-> FALSE, buffer |-> <<>>, overflow |-> FALSE, polled |-> FALSE,
   live |-> 0]

\* CreateDevice, QueryInterface and the Release of the first interface:
\* one reference is left
OpenDevice(d, polled) ==
  [NoDevice EXCEPT !.dev = "open", !.polled = polled, !.live = d.live + 1]

\* IDirectInputDevice2_Release
ReleaseDevice(d, how) == [NoDevice EXCEPT !.dev = how, !.live = d.live - 1]

\* j, i: the joystick an operation works on and the loop index of
\* joydx_exit; seen: nMut of the latest event emitted before joydx_get_state
\* was called; ret: *ret_state; burst, target: joydx_exit was called while
\* update_joystick had items to dispatch, and the nMut that update leads to
\* init_ret: what the latest joydx_init returned; reported: the controllers
\* EnumDevices called back for to fill the table
MainIdle ==
  [pc |-> "idle", j |-> 0, i |-> 0, seen |-> 0, ret |-> <<>>, burst |-> FALSE, target |-> 0,
   init_ret |-> FALSE, reported |-> <<>>]

\* buffer, i: the items of update_joystick and its loop index; out: the
\* events the round has emitted; slots: for every item dispatched, whether
\* the event source served each request for an unused event the item made
\* hr: what the latest GetDeviceData answered, and for which device
PollerNone ==
  [pc |-> "none", num |-> 0, buffer |-> <<>>, i |-> 0, out |-> <<>>, slots |-> <<>>,
   hr |-> <<>>]

\* the state of the module-level variables at program start
DriverInit ==
  /\ joystick_dinput = "NULL"
  /\ joydx_num_joysticks = 0
  /\ joydx_joystick = <<>>
  /\ joydx_thread = "NULL"
  /\ joydx_thread_cs = [state |-> "uninit", owner |-> "none"]
  /\ joydx_thread_wakers = [w \in {STOP_EVENT} |-> NullHandle]
  /\ es = <<>>
  /\ dinput = <<>>
  /\ main = MainIdle
  /\ poller = PollerNone
  /\ ui = [scheduled |-> 0]
  /\ committed = <<>>
  /\ nMut = <<>>
  /\ evMut = <<>>
  /\ nDeltas = 0

Init == DriverInit

(* ----------------------------- enumeration ---------------------------- *)

\* A controller the backend reports: what EnumObjects finds on it, whether
\* SetEventNotification answers DI_POLLEDDEVICE, and the step of
\* joystick_enum_callback that fails on it ("none": no step fails).
Controller(caps, polled, fail) == [caps |-> caps, polled |-> polled, fail |-> fail]

Caps(axes, sliders, povs, buttons) ==
  [have |-> [n \in {"x", "y", "z", "rx", "ry", "rz"} |-> n \in axes],
   num_sliders |-> sliders, num_povs |-> povs, num_buttons |-> buttons]

\* the steps of joystick_enum_callback, in the order of the code
EnumSteps ==
  <<"create", "query", "coop", "enum", "format", "range", "deadzone", "buffer",
    "notify", "timer">>

StepIndex(step) == CHOOSE k \in 1..Len(EnumSteps) : EnumSteps[k] = step

\* does the callback get past `step` on this controller?
Passes(ctrl, step) ==
  ctrl.fail = "none" \/ StepIndex(step) < StepIndex(ctrl.fail)

\* table[n] = v, for a slot n that may not have been written before
Ext(table, n, v) == [k \in DOMAIN table \cup {n} |-> IF k = n THEN v ELSE table[k]]

\* An enumeration state: the globals the callback reads and writes.
EnumState(num, joy, wakers, devs, evs) ==
  [num |-> num, joy |-> joy, wakers |-> wakers, devs |-> devs, evs |-> evs]

\* the Error: label without the release of the device
EnumError_NoRelease(st, created) ==
  LET n == st.num
  IN IF st.wakers[JOYSTICK_WAKER(n)].h # "NULL"
     THEN [st EXCEPT !.wakers[JOYSTICK_WAKER(n)] = NullOf(CloseHandle(@))]
     ELSE st

\* the Error: label of joystick_enum_callback
EnumError(st, created) ==
  LET n == st.num
      st1 == IF st.wakers[JOYSTICK_WAKER(n)].h # "NULL"
             THEN [st EXCEPT !.wakers[JOYSTICK_WAKER(n)] = NullOf(CloseHandle(@))]
             ELSE st
  IN IF created THEN [st1 EXCEPT !.devs[n] = ReleaseDevice(@, "none")] ELSE st1

joystick_enum_callback(st, ctrl) ==
  LET n == st.num
      \* memset(&joydx_joystick[n], 0, ...): parent.es is part of the record
      st0 == [st EXCEPT !.joy = Ext(@, n, ZeroJoystick),
                        !.evs = Ext(@, n, DeadEs),
                        !.devs = Ext(@, n, Get(@, n, NoDevice)),
                        !.wakers = Ext(@, JOYSTICK_WAKER(n), Get(@, JOYSTICK_WAKER(n), NullHandle))]
      \* dinput_device = temp
      st0d == [st0 EXCEPT !.devs[n] = OpenDevice(@, ctrl.polled)]
  IN IF ~Passes(ctrl, "query")
     THEN EnumError(st0, FALSE)
     ELSE IF ~Passes(ctrl, "coop")
     THEN EnumError(st0d, TRUE)
     ELSE IF ~Passes(ctrl, "enum")
     THEN EnumError(st0d, TRUE)
     ELSE
       \* object_enum_callback has filled caps_and_names
       LET st1 == [st0d EXCEPT !.joy[n].caps_and_names = ctrl.caps]
       IN IF ~Passes(ctrl, "buffer")
          THEN EnumError(st1, TRUE)
          ELSE
            LET filled == [fill_joystick_info_using_caps_and_names(st1.joy[n])
                             EXCEPT !.device = "open", !.gotten = FALSE]
                st2 == [st1 EXCEPT
                          !.joy[n] = filled,
                          !.wakers[JOYSTICK_WAKER(n)] = CreateEvent(@)]
            IN IF ~Passes(ctrl, "notify")
               THEN EnumError(st2, TRUE)
               ELSE IF ctrl.polled
               THEN IF ~Passes(ctrl, "timer")
                    THEN EnumError([st2 EXCEPT !.wakers[JOYSTICK_WAKER(n)] =
                                                  CreateWaitableTimer(CloseHandle(@), FALSE)], TRUE)
                    ELSE [st2 EXCEPT !.wakers[JOYSTICK_WAKER(n)] =
                                       CreateWaitableTimer(CloseHandle(@), TRUE),
                                     !.num = n + 1]
               ELSE [st2 EXCEPT !.num = n + 1]

\* IDirectInput_EnumDevices: the callback, once per attached controller
RECURSIVE EnumDevices(_, _)
EnumDevices(st, attached) ==
  IF attached = <<>>
  THEN st
  ELSE EnumDevices(joystick_enum_callback(st, Head(attached)), Tail(attached))

\* IDirectInputDevice2_Acquire on one device: granted or refused (the
\* cooperative level is DISCL_FOREGROUND)
Acquire(d, granted) == IF d.dev = "open" /\ granted THEN [d EXCEPT !.acquired = TRUE] ELSE d

Unacquire(d) == [d EXCEPT !.acquired = FALSE, !.buffer = <<>>, !.overflow = FALSE]

\* the loop of _al_win_joystick_dinput_acquire
win_joystick_dinput_acquire(devs, dinp, num, granted) ==
  IF dinp # "NULL"
  THEN [s \in DOMAIN devs |-> IF s < num THEN Acquire(devs[s], granted) ELSE devs[s]]
  ELSE devs

\* the loop of _al_win_joystick_dinput_unacquire
win_joystick_dinput_unacquire(devs, dinp, num) ==
  IF dinp # "NULL"
  THEN [s \in DOMAIN devs |-> IF s < num THEN Unacquire(devs[s]) ELSE devs[s]]
  ELSE devs

(* ------------------------------ joydx_init ---------------------------- *)

\* joydx_init, on a driver that is not running.  `outcome` is what the
\* system answers: "dx3" (_dx_ver < 0x0500), "create_fail"
\* (DirectInputCreate), "enum_fail" (EnumDevices fails, before it calls
\* back for any controller) or "ok"; `granted` is the answer to Acquire.
\* joydx_init without "if (joydx_num_joysticks == 0) return false;"
InitProceeds_NoCount(outcome, num) == outcome = "ok"

\* joydx_init gets past EnumDevices and the test of joydx_num_joysticks
InitProceeds(outcome, num) == outcome = "ok" /\ num # 0

joydx_init(attached, outcome, granted) ==
  /\ main.pc = "idle"
  /\ joydx_thread = "NULL"
  /\ IF outcome \in {"dx3", "create_fail"}
     THEN /\ main' = [main EXCEPT !.init_ret = FALSE, !.reported = <<>>]
          /\ UNCHANGED <<joystick_dinput, joydx_num_joysticks, joydx_joystick, joydx_thread,
                         joydx_thread_cs, joydx_thread_wakers, es, dinput, poller, ui,
                         committed, nMut, evMut, nDeltas>>
     ELSE
       LET st == EnumDevices(EnumState(joydx_num_joysticks, joydx_joystick,
                                       joydx_thread_wakers, dinput, es),
                             IF outcome = "ok" THEN attached ELSE <<>>)
           started == InitProceeds(outcome, st.num)
       IN /\ joystick_dinput' = IF outcome = "enum_fail" THEN "released" ELSE "open"
          /\ joydx_num_joysticks' = st.num
          /\ joydx_joystick' = st.joy
          /\ committed' = [s \in DOMAIN st.joy |-> st.joy[s].joystate]
          /\ nMut' = [s \in DOMAIN st.joy |-> Get(nMut, s, 0)]
          /\ evMut' = [s \in DOMAIN st.joy |-> Get(evMut, s, 0)]
          /\ dinput' = IF started
                       THEN win_joystick_dinput_acquire(st.devs, "open", st.num, granted)
                       ELSE st.devs
          /\ joydx_thread_wakers' =
               IF started
               THEN [st.wakers EXCEPT ![STOP_EVENT] = CreateEvent(@)]
               ELSE st.wakers
          /\ joydx_thread_cs' = IF started THEN [state |-> "init", owner |-> "none"]
                                ELSE joydx_thread_cs
          /\ joydx_thread' = IF started THEN "handle" ELSE "NULL"
          /\ poller' = IF started THEN [PollerNone EXCEPT !.pc = "wait"] ELSE poller
          /\ es' = st.evs
          /\ main' = [main EXCEPT !.init_ret = started,
                                  !.reported = IF outcome = "ok" THEN attached ELSE <<>>]
          /\ UNCHANGED <<ui, nDeltas>>

(* --------------------------- the two locks ---------------------------- *)

\* EnterCriticalSection(&joydx_thread_cs) returns once no thread owns it
CsFree == joydx_thread_cs.owner = "none"

\* an event-source lock that excludes nobody
EsLockFree_NoLock(j) == TRUE

\* _al_event_source_lock returns once no thread holds the lock
EsLockFree(j) == es[j].owner = "none"

(* ------------------- primary thread: get and release ------------------ *)

\* the driver is running: joydx_init succeeded and joydx_exit was not called
DriverActive == joydx_thread = "handle" /\ main.pc = "idle"

\* joydx_get_num_joysticks, called while the driver runs
joydx_get_num_joysticks ==
  /\ DriverActive
  /\ main.ret # <<joydx_num_joysticks>>
  /\ main' = [main EXCEPT !.ret = <<joydx_num_joysticks>>]
  /\ UNCHANGED <<joystick_dinput, joydx_num_joysticks, joydx_joystick, joydx_thread,
                 joydx_thread_cs, joydx_thread_wakers, es, dinput, poller, ui, committed,
                 nMut, evMut, nDeltas>>

\* joydx_get_joystick: EnterCriticalSection
joydx_get_joystick_enter(num) ==
  /\ DriverActive
  /\ num < joydx_num_joysticks
  /\ CsFree
  /\ joydx_thread_cs' = [joydx_thread_cs EXCEPT !.owner = "main"]
  /\ main' = [main EXCEPT !.pc = "get", !.j = num]
  /\ UNCHANGED <<joystick_dinput, joydx_num_joysticks, joydx_joystick, joydx_thread,
                 joydx_thread_wakers, es, dinput, poller, ui, committed, nMut,
                 evMut, nDeltas>>

\* joydx_get_joystick: the critical section and LeaveCriticalSection
joydx_get_joystick_body ==
  /\ main.pc = "get"
  /\ es' = [es EXCEPT ![main.j] = [live |-> TRUE, owner |-> "none", wants |-> {}]]
  /\ joydx_joystick' = [joydx_joystick EXCEPT ![main.j].gotten = TRUE]
  /\ joydx_thread_cs' = [joydx_thread_cs EXCEPT !.owner = "none"]
  /\ main' = [MainIdle EXCEPT !.init_ret = main.init_ret, !.reported = main.reported]
  /\ UNCHANGED <<joystick_dinput, joydx_num_joysticks, joydx_thread, joydx_thread_wakers,
                 dinput, poller, ui, committed, nMut, evMut, nDeltas>>

\* joydx_release_joystick: EnterCriticalSection (the caller holds a gotten joystick)
joydx_release_joystick_enter(num) ==
  /\ DriverActive
  /\ num < joydx_num_joysticks
  /\ joydx_joystick[num].gotten
  /\ CsFree
  /\ joydx_thread_cs' = [joydx_thread_cs EXCEPT !.owner = "main"]
  /\ main' = [main EXCEPT !.pc = "release", !.j = num]
  /\ UNCHANGED <<joystick_dinput, joydx_num_joysticks, joydx_joystick, joydx_thread,
                 joydx_thread_wakers, es, dinput, poller, ui, committed, nMut,
                 evMut, nDeltas>>

\* joydx_release_joystick clearing the whole record of the joystick
joydx_release_joystick_body_Memset ==
  /\ main.pc = "release"
  /\ joydx_joystick' = [joydx_joystick EXCEPT ![main.j] = ZeroJoystick]
  /\ es' = [es EXCEPT ![main.j] = DeadEs]
  /\ joydx_thread_cs' = [joydx_thread_cs EXCEPT !.owner = "none"]
  /\ main' = [MainIdle EXCEPT !.init_ret = main.init_ret, !.reported = main.reported]
  /\ UNCHANGED <<joystick_dinput, joydx_num_joysticks, joydx_thread, joydx_thread_wakers,
                 dinput, poller, ui, committed, nMut, evMut, nDeltas>>

\* joydx_release_joystick: the critical section and LeaveCriticalSection
joydx_release_joystick_body ==
  /\ main.pc = "release"
  /\ joydx_joystick' = [joydx_joystick EXCEPT ![main.j].gotten = FALSE]
  /\ es' = [es EXCEPT ![main.j] = DeadEs]
  /\ joydx_thread_cs' = [joydx_thread_cs EXCEPT !.owner = "none"]
  /\ main' = [MainIdle EXCEPT !.init_ret = main.init_ret, !.reported = main.reported]
  /\ UNCHANGED <<joystick_dinput, joydx_num_joysticks, joydx_thread, joydx_thread_wakers,
                 dinput, poller, ui, committed, nMut, evMut, nDeltas>>

\* the user registers the event source with, or removes it from, event
\* queues: from now on `wants` are the event types some queue wants
SetSubscription(num, wants) ==
  /\ main.pc = "idle"
  /\ es[num].live
  /\ EsLockFree(num)
  /\ es[num].wants # wants
  /\ es' = [es EXCEPT ![num].wants = wants]
  /\ UNCHANGED <<joystick_dinput, joydx_num_joysticks, joydx_joystick, joydx_thread,
                 joydx_thread_cs, joydx_thread_wakers, dinput, main, poller, ui, committed, nMut, evMut, nDeltas>>

(* ---------------------- primary thread: get_state --------------------- *)

\* joydx_get_state is called on a gotten joystick; `seen` records the
\* latest event the caller can have seen before the call
joydx_get_state_call(num) ==
  /\ main.pc = "idle"
  /\ es[num].live
  /\ main' = [main EXCEPT !.pc = "state_lock", !.j = num, !.seen = evMut[num]]
  /\ UNCHANGED <<joystick_dinput, joydx_num_joysticks, joydx_joystick, joydx_thread,
                 joydx_thread_cs, joydx_thread_wakers, es, dinput, poller, ui, committed, nMut, evMut, nDeltas>>

\* _al_event_source_lock
joydx_get_state_lock ==
  /\ main.pc = "state_lock"
  /\ EsLockFree(main.j)
  /\ es' = [es EXCEPT ![main.j].owner = "main"]
  /\ main' = [main EXCEPT !.pc = "state_copy"]
  /\ UNCHANGED <<joystick_dinput, joydx_num_joysticks, joydx_joystick, joydx_thread,
                 joydx_thread_cs, joydx_thread_wakers, dinput, poller, ui, committed, nMut, evMut, nDeltas>>

\* joydx_get_state entering the critical section of the driver while it
\* holds the event-source lock
joydx_get_state_copy_InCs ==
  /\ main.pc = "state_copy"
  /\ CsFree
  /\ main' = [main EXCEPT !.pc = "state_unlock",
                          !.ret = <<joydx_joystick[main.j].joystate, nMut[main.j]>>]
  /\ UNCHANGED <<joystick_dinput, joydx_num_joysticks, joydx_joystick, joydx_thread,
                 joydx_thread_cs, joydx_thread_wakers, es, dinput, poller, ui, committed, nMut, evMut, nDeltas>>

\* *ret_state = joy->joystate (with the number of deltas it reflects)
joydx_get_state_copy ==
  /\ main.pc = "state_copy"
  /\ main' = [main EXCEPT !.pc = "state_unlock",
                          !.ret = <<joydx_joystick[main.j].joystate, nMut[main.j]>>]
  /\ UNCHANGED <<joystick_dinput, joydx_num_joysticks, joydx_joystick, joydx_thread,
                 joydx_thread_cs, joydx_thread_wakers, es, dinput, poller, ui, committed, nMut, evMut, nDeltas>>

\* _al_event_source_unlock and return
joydx_get_state_unlock ==
  /\ main.pc = "state_unlock"
  /\ es' = [es EXCEPT ![main.j].owner = IF @ = "main" THEN "none" ELSE @]
  /\ main' = [MainIdle EXCEPT !.init_ret = main.init_ret, !.reported = main.reported]
  /\ UNCHANGED <<joystick_dinput, joydx_num_joysticks, joydx_joystick, joydx_thread,
                 joydx_thread_cs, joydx_thread_wakers, dinput, poller, ui, committed, nMut, evMut, nDeltas>>

(* ------------------------------ joydx_exit ---------------------------- *)

\* the joystick thread is inside update_joystick with items to dispatch
InUpdate(num) == poller.pc \in {"lock_es", "dispatch"} /\ poller.num = num

\* joydx_exit: SetEvent(STOP_EVENT)
joydx_exit_stop ==
  /\ DriverActive
  /\ joydx_thread_wakers' = [joydx_thread_wakers EXCEPT ![STOP_EVENT].signaled = TRUE]
  /\ main' = [main EXCEPT !.pc = "exit_join",
                          !.burst = \E n \in Slots : InUpdate(n),
                          !.j = poller.num,
                          !.target = IF \E n \in Slots : InUpdate(n)
                                     THEN nMut[poller.num] + Len(poller.buffer) - poller.i
                                     ELSE 0]
  /\ UNCHANGED <<joystick_dinput, joydx_num_joysticks, joydx_joystick, joydx_thread,
                 joydx_thread_cs, es, dinput, poller, ui, committed, nMut, evMut,
                 nDeltas>>

\* joydx_exit without the wait for the thread
ThreadJoined_NoWait == TRUE

\* WaitForSingleObject(joydx_thread, INFINITE) returns once the thread has ended
ThreadJoined == poller.pc = "exited"

\* joydx_exit: the join, and joydx_thread = NULL
joydx_exit_join ==
  /\ main.pc = "exit_join"
  /\ ThreadJoined
  /\ joydx_thread' = "NULL"
  /\ main' = [main EXCEPT !.pc = "exit_free"]
  /\ UNCHANGED <<joystick_dinput, joydx_num_joysticks, joydx_joystick, joydx_thread_cs,
                 joydx_thread_wakers, es, dinput, poller, ui, committed, nMut,
                 evMut, nDeltas>>

\* joydx_exit: CloseHandle(STOP_EVENT), DeleteCriticalSection, and the
\* synchronous wnd_call_proc(_al_win_joystick_dinput_unacquire)
joydx_exit_free ==
  /\ main.pc = "exit_free"
  /\ joydx_thread_wakers' = [joydx_thread_wakers EXCEPT ![STOP_EVENT] = NullOf(CloseHandle(@))]
  /\ joydx_thread_cs' = [joydx_thread_cs EXCEPT !.state = "deleted"]
  /\ dinput' = win_joystick_dinput_unacquire(dinput, joystick_dinput, joydx_num_joysticks)
  /\ main' = [main EXCEPT !.pc = "exit_destroy", !.i = 0]
  /\ UNCHANGED <<joystick_dinput, joydx_num_joysticks, joydx_joystick, joydx_thread, es,
                 poller, ui, committed, nMut, evMut, nDeltas>>

\* joydx_exit: one round of the "destroy the devices" loop
joydx_exit_destroy ==
  /\ main.pc = "exit_destroy"
  /\ main.i < joydx_num_joysticks
  /\ dinput' = [dinput EXCEPT ![main.i] = ReleaseDevice(@, "released")]
  /\ joydx_thread_wakers' =
       [joydx_thread_wakers EXCEPT ![JOYSTICK_WAKER(main.i)] = NullOf(CloseHandle(@))]
  /\ main' = [main EXCEPT !.i = @ + 1]
  /\ UNCHANGED <<joystick_dinput, joydx_num_joysticks, joydx_joystick, joydx_thread,
                 joydx_thread_cs, es, poller, ui, committed, nMut, evMut, nDeltas>>

\* joydx_exit: IDirectInput_Release, joystick_dinput = NULL, joydx_num_joysticks = 0
joydx_exit_done ==
  /\ main.pc = "exit_destroy"
  /\ main.i >= joydx_num_joysticks
  /\ joystick_dinput' = "NULL"
  /\ joydx_num_joysticks' = 0
  /\ main' = [MainIdle EXCEPT !.init_ret = main.init_ret]
  /\ poller' = IF poller.pc = "exited" THEN PollerNone ELSE poller
  /\ UNCHANGED <<joydx_joystick, joydx_thread, joydx_thread_cs, joydx_thread_wakers, es,
                 dinput, ui, committed, nMut, evMut, nDeltas>>

(* ------------------------- the joystick thread ------------------------ *)

\* the handles WaitForMultipleObjects(joydx_num_joysticks + 1, ...) waits on
WaitSet == 0..joydx_num_joysticks

\* a wait that returns for the highest signaled handle
LowestSignaled_Highest ==
  CHOOSE w \in WaitSet :
    /\ joydx_thread_wakers[w].signaled
    /\ \A v \in WaitSet : joydx_thread_wakers[v].signaled => w >= v

\* the index WaitForMultipleObjects returns: the lowest signaled handle
LowestSignaled ==
  CHOOSE w \in WaitSet :
    /\ joydx_thread_wakers[w].signaled
    /\ \A v \in WaitSet : joydx_thread_wakers[v].signaled => w <= v

\* the joystick thread without the test for the stop event
StopSignaled_Never(result) == FALSE

\* "if (result == WAIT_OBJECT_0) break;"
StopSignaled(result) == result = STOP_EVENT

\* a wait on a manual-reset event: the handle stays signaled
AutoReset_Manual(w) == w

\* a wait satisfied by an event made with CreateEvent(NULL, FALSE, ...) or by
\* a synchronization timer resets the handle
AutoReset(w) == [w EXCEPT !.signaled = FALSE]

\* joydx_thread_proc: WaitForMultipleObjects returns; the handle it returns
\* for is auto-reset
joydx_thread_proc_wait ==
  /\ poller.pc = "wait"
  /\ \E w \in WaitSet : joydx_thread_wakers[w].signaled
  /\ LET result == LowestSignaled
         num == result - 1
     IN /\ joydx_thread_wakers' = [joydx_thread_wakers EXCEPT ![result] = AutoReset(@)]
        /\ poller' = IF StopSignaled(result)
                     THEN [poller EXCEPT !.pc = "exited"]
                     ELSE IF num < 0 \/ num >= joydx_num_joysticks
                     THEN poller
                     ELSE [poller EXCEPT !.pc = "woken", !.num = num]
  /\ UNCHANGED <<joystick_dinput, joydx_num_joysticks, joydx_joystick, joydx_thread,
                 joydx_thread_cs, es, dinput, main, ui, committed, nMut, evMut,
                 nDeltas>>

\* joydx_thread_proc: EnterCriticalSection
joydx_thread_proc_enter ==
  /\ poller.pc = "woken"
  /\ CsFree
  /\ joydx_thread_cs' = [joydx_thread_cs EXCEPT !.owner = "poller"]
  /\ poller' = [poller EXCEPT !.pc = "in_cs"]
  /\ UNCHANGED <<joystick_dinput, joydx_num_joysticks, joydx_joystick, joydx_thread,
                 joydx_thread_wakers, es, dinput, main, ui, committed, nMut,
                 evMut, nDeltas>>

\* the joystick thread without the test of the gotten flag
ShouldUpdate_NoTest(num) == TRUE

\* "if (joydx_joystick[num].gotten) update_joystick(...)"
ShouldUpdate(num) == joydx_joystick[num].gotten

\* what IDirectInputDevice2_GetDeviceData can answer for a device
DrainResults(d) ==
  IF d.acquired
  THEN {IF d.overflow THEN "DI_BUFFEROVERFLOW" ELSE "DI_OK", "DIERR_OTHER"}
  ELSE {"DIERR_NOTACQUIRED", "DIERR_INPUTLOST"}

\* the number of calls wnd_schedule_proc has queued for the window thread
\* and the window thread has not run yet is kept at most this
MaxScheduled == 2

\* update_joystick scheduling the re-acquire on every error
NeedsReacquire_AnyError(hr) == TRUE

\* "if ((hr == DIERR_NOTACQUIRED) || (hr == DIERR_INPUTLOST))"
NeedsReacquire(hr) == hr \in {"DIERR_NOTACQUIRED", "DIERR_INPUTLOST"}

\* update_joystick without the test of num_items
NothingToDo_Never(buffer) == FALSE

\* "if (num_items == 0) return;"
NothingToDo(buffer) == buffer = <<>>

\* LeaveCriticalSection, back to the top of the loop
LeaveCs(p) == [p EXCEPT !.pc = "wait", !.num = 0, !.buffer = <<>>, !.i = 0, !.out = <<>>,
                        !.slots = <<>>]

\* joydx_thread_proc inside the critical section, up to the point where
\* update_joystick has something to dispatch: the gotten test, Poll and
\* GetDeviceData
update_joystick_drain(hr) ==
  /\ poller.pc = "in_cs"
  /\ LET num == poller.num
         d == dinput[num]
     IN IF ~ShouldUpdate(num)
        THEN /\ hr = "DI_OK"
             /\ poller' = LeaveCs(poller)
             /\ joydx_thread_cs' = [joydx_thread_cs EXCEPT !.owner = "none"]
             /\ UNCHANGED <<dinput, ui>>
        ELSE /\ hr \in DrainResults(d)
             /\ IF hr \notin {"DI_OK", "DI_BUFFEROVERFLOW"}
                THEN /\ ui' = IF NeedsReacquire(hr)
                              THEN [ui EXCEPT !.scheduled = @ + 1]
                              ELSE ui
                     /\ NeedsReacquire(hr) => ui.scheduled < MaxScheduled
                     /\ poller' = [LeaveCs(poller) EXCEPT !.hr = <<hr, num>>]
                     /\ joydx_thread_cs' = [joydx_thread_cs EXCEPT !.owner = "none"]
                     /\ UNCHANGED dinput
                ELSE /\ dinput' = [dinput EXCEPT ![num].buffer = <<>>, ![num].overflow = FALSE]
                     /\ ui' = ui
                     /\ IF NothingToDo(d.buffer)
                        THEN /\ poller' = [LeaveCs(poller) EXCEPT !.hr = <<hr, num>>]
                             /\ joydx_thread_cs' = [joydx_thread_cs EXCEPT !.owner = "none"]
                        ELSE /\ poller' = [poller EXCEPT !.pc = "lock_es", !.buffer = d.buffer,
                                                         !.i = 0, !.hr = <<hr, num>>]
                             /\ UNCHANGED joydx_thread_cs
  /\ UNCHANGED <<joystick_dinput, joydx_num_joysticks, joydx_joystick, joydx_thread,
                 joydx_thread_wakers, es, main, committed, nMut, evMut, nDeltas>>

\* update_joystick: _al_event_source_lock
update_joystick_lock ==
  /\ poller.pc = "lock_es"
  /\ EsLockFree(poller.num)
  /\ es' = [es EXCEPT ![poller.num].owner = "poller"]
  /\ poller' = [poller EXCEPT !.pc = "dispatch"]
  /\ UNCHANGED <<joystick_dinput, joydx_num_joysticks, joydx_joystick, joydx_thread,
                 joydx_thread_cs, joydx_thread_wakers, dinput, main, ui, committed,
                 nMut, evMut, nDeltas>>

\* update_joystick: one round of the for loop; slots[k] tells whether
\* _al_event_source_get_unused_event serves the k-th request of the round
update_joystick_dispatch(slots) ==
  /\ poller.pc = "dispatch"
  /\ poller.i < Len(poller.buffer)
  /\ LET num == poller.num
         c == DispatchItem(Ctx(joydx_joystick[num], es[num].wants, slots),
                           poller.buffer[poller.i + 1])
     IN /\ joydx_joystick' = [joydx_joystick EXCEPT ![num] = c.joy]
        /\ nMut' = [nMut EXCEPT ![num] = @ + 1]
        /\ evMut' = IF c.out # <<>> THEN [evMut EXCEPT ![num] = nMut[num] + 1] ELSE evMut
        /\ poller' = [poller EXCEPT !.i = @ + 1, !.out = @ \o c.out,
                                    !.slots = Append(@, SubSeq(slots, 1, c.asked))]
  /\ UNCHANGED <<joystick_dinput, joydx_num_joysticks, joydx_thread, joydx_thread_cs,
                 joydx_thread_wakers, es, dinput, main, ui, committed, nDeltas>>

\* update_joystick: _al_event_source_unlock, then LeaveCriticalSection
update_joystick_unlock ==
  /\ poller.pc = "dispatch"
  /\ poller.i >= Len(poller.buffer)
  /\ es' = [es EXCEPT ![poller.num].owner = IF @ = "poller" THEN "none" ELSE @]
  /\ committed' = [committed EXCEPT ![poller.num] = joydx_joystick[poller.num].joystate]
  /\ joydx_thread_cs' = [joydx_thread_cs EXCEPT !.owner = "none"]
  /\ poller' = LeaveCs(poller)
  /\ UNCHANGED <<joystick_dinput, joydx_num_joysticks, joydx_joystick, joydx_thread,
                 joydx_thread_wakers, dinput, main, ui, nMut, evMut, nDeltas>>

(* --------------------------- the window thread ------------------------ *)

\* some device of the table is, or is not, acquired
SomeAcquired(acq) ==
  \E s \in Slots : s < joydx_num_joysticks /\ dinput[s].dev = "open" /\ dinput[s].acquired = acq

\* the window thread runs the call update_joystick scheduled with
\* wnd_schedule_proc(_al_win_joystick_dinput_acquire)
wnd_scheduled_acquire(granted) ==
  /\ ui.scheduled > 0
  /\ ui' = [ui EXCEPT !.scheduled = @ - 1]
  /\ dinput' = win_joystick_dinput_acquire(dinput, joystick_dinput, joydx_num_joysticks, granted)
  /\ UNCHANGED <<joystick_dinput, joydx_num_joysticks, joydx_joystick, joydx_thread,
                 joydx_thread_cs, joydx_thread_wakers, es, main, poller, committed,
                 nMut, evMut, nDeltas>>

\* the window gains the focus: _al_win_joystick_dinput_acquire
wnd_focus_gain ==
  /\ SomeAcquired(FALSE)
  /\ dinput' = win_joystick_dinput_acquire(dinput, joystick_dinput, joydx_num_joysticks, TRUE)
  /\ UNCHANGED <<joystick_dinput, joydx_num_joysticks, joydx_joystick, joydx_thread,
                 joydx_thread_cs, joydx_thread_wakers, es, main, poller, ui, committed, nMut, evMut, nDeltas>>

\* the window loses the focus: _al_win_joystick_dinput_unacquire
wnd_focus_loss ==
  /\ SomeAcquired(TRUE)
  /\ dinput' = win_joystick_dinput_unacquire(dinput, joystick_dinput, joydx_num_joysticks)
  /\ UNCHANGED <<joystick_dinput, joydx_num_joysticks, joydx_joystick, joydx_thread,
                 joydx_thread_cs, joydx_thread_wakers, es, main, poller, ui, committed, nMut, evMut, nDeltas>>

(* ------------------------------ the hardware -------------------------- *)

\* An acquired device changes state: DirectInput buffers the delta (up to
\* DEVICE_BUFFER_SIZE of them) and, for an event-driven device, sets the
\* event given to SetEventNotification.
HidDelta(num, item) ==
  /\ dinput[num].dev = "open"
  /\ dinput[num].acquired
  /\ nDeltas' = nDeltas + 1
  /\ dinput' = IF Len(dinput[num].buffer) < DEVICE_BUFFER_SIZE
               THEN [dinput EXCEPT ![num].buffer = Append(@, item)]
               ELSE [dinput EXCEPT ![num].overflow = TRUE]
  /\ joydx_thread_wakers' =
       IF joydx_thread_wakers[JOYSTICK_WAKER(num)].h = "event"
       THEN [joydx_thread_wakers EXCEPT ![JOYSTICK_WAKER(num)].signaled = TRUE]
       ELSE joydx_thread_wakers
  /\ UNCHANGED <<joystick_dinput, joydx_num_joysticks, joydx_joystick, joydx_thread,
                 joydx_thread_cs, es, main, poller, ui, committed, nMut, evMut>>

\* the period of a polled device's waitable timer elapses
TimerTick(num) ==
  /\ joydx_thread_wakers[JOYSTICK_WAKER(num)].h = "timer"
  /\ ~joydx_thread_wakers[JOYSTICK_WAKER(num)].signaled
  /\ joydx_thread_wakers' = [joydx_thread_wakers EXCEPT ![JOYSTICK_WAKER(num)].signaled = TRUE]
  /\ UNCHANGED <<joystick_dinput, joydx_num_joysticks, joydx_joystick, joydx_thread,
                 joydx_thread_cs, es, dinput, main, poller, ui, committed, nMut,
                 evMut, nDeltas>>

(* --------------------------- the driver at work ----------------------- *)

\* an event-driven pad: X, Y, one hat, two buttons
PadCaps == Caps({"x", "y"}, 0, 1, 2)

\* a hat switch alone
HatCaps == Caps({}, 0, 1, 0)

\* what the backend can report as attached: nothing; a pad; a pad on which
\* SetEventNotification fails and a polled hat switch
AttachScenarios ==
  {<<>>,
   <<Controller(PadCaps, FALSE, "none")>>,
   <<Controller(PadCaps, FALSE, "notify"), Controller(HatCaps, TRUE, "none")>>}

InitOutcomes == {"dx3", "create_fail", "enum_fail", "ok"}

\* the deltas the hardware produces
HidItems ==
  {Item(DIJOFS_X, AXIS_RANGE), Item(DIJOFS_POV(0), JOY_POVRIGHT),
   Item(DIJOFS_BUTTON(1), 128)}

Subscriptions == {{}, AL_ALL_JOYSTICK_EVENTS}

\* bound on the deltas the hardware produces in one run
MaxDeltas == 2

Slots2 == [1..2 -> BOOLEAN]

Next ==
  \/ \E attached \in AttachScenarios, outcome \in InitOutcomes, granted \in BOOLEAN :
       joydx_init(attached, outcome, granted)
  \/ \E num \in Slots : joydx_get_joystick_enter(num)
  \/ joydx_get_joystick_body
  \/ \E num \in Slots : joydx_release_joystick_enter(num)
  \/ joydx_release_joystick_body
  \/ \E num \in Slots, wants \in Subscriptions : SetSubscription(num, wants)
  \/ \E num \in Slots : joydx_get_state_call(num)
  \/ joydx_get_state_lock
  \/ joydx_get_state_copy
  \/ joydx_get_state_unlock
  \/ joydx_exit_stop
  \/ joydx_exit_join
  \/ joydx_exit_free
  \/ joydx_exit_destroy
  \/ joydx_exit_done
  \/ joydx_thread_proc_wait
  \/ joydx_thread_proc_enter
  \/ \E hr \in {"DI_OK", "DI_BUFFEROVERFLOW", "DIERR_OTHER", "DIERR_NOTACQUIRED",
                "DIERR_INPUTLOST"} : update_joystick_drain(hr)
  \/ update_joystick_lock
  \/ \E slots \in Slots2 : update_joystick_dispatch(slots)
  \/ update_joystick_unlock
  \/ \E granted \in BOOLEAN : wnd_scheduled_acquire(granted)
  \/ wnd_focus_gain
  \/ wnd_focus_loss
  \/ \E num \in Slots, item \in HidItems : nDeltas < MaxDeltas /\ HidDelta(num, item)
  \/ \E num \in Slots : TimerTick(num)

Spec == Init /\ [][Next]_vars

\* the driver at work, the program asking for the number of joysticks
NextCount == Next \/ joydx_get_num_joysticks

SpecCount == Init /\ [][NextCount]_vars

(* ------------------------- the drain at work -------------------------- *)

\* The driver is started on the controllers of one of `scenarios`, its
\* joysticks are gotten and subscribed to, and the hardware produces up to
\* `max` deltas out of `items` while the joystick thread drains them.
DataNext(scenarios, items, max) ==
  \/ \E attached \in scenarios : joydx_init(attached, "ok", TRUE)
  \/ \E num \in Slots : ~joydx_joystick[num].gotten /\ joydx_get_joystick_enter(num)
  \/ joydx_get_joystick_body
  \/ \E num \in Slots, wants \in Subscriptions : SetSubscription(num, wants)
  \/ joydx_thread_proc_wait
  \/ joydx_thread_proc_enter
  \/ \E hr \in {"DI_OK", "DI_BUFFEROVERFLOW", "DIERR_OTHER", "DIERR_NOTACQUIRED",
                "DIERR_INPUTLOST"} : update_joystick_drain(hr)
  \/ update_joystick_lock
  \/ \E slots \in Slots2 : update_joystick_dispatch(slots)
  \/ update_joystick_unlock
  \/ \E num \in Slots, item \in items : nDeltas < max /\ HidDelta(num, item)

\* an event-driven hat switch alone, and the pad
DataScenarios ==
  {<<Controller(HatCaps, FALSE, "none")>>, <<Controller(PadCaps, FALSE, "none")>>}

\* a throttle: RZ and one slider
ThrottleCaps == Caps({"rz"}, 1, 0, 0)

\* the hat switch, the pad and the throttle
AxisScenarios == DataScenarios \cup {<<Controller(ThrottleCaps, FALSE, "none")>>}

\* Deltas on axes: the ends and the inside of the configured range on X,
\* Y, RZ and slider 0, deltas that name objects no device has (Z, hat 1),
\* a hat position and a button.
AxisItems ==
  {Item(DIJOFS_X, -AXIS_RANGE), Item(DIJOFS_X, 16384), Item(DIJOFS_X, AXIS_RANGE),
   Item(DIJOFS_Y, -1), Item(DIJOFS_Z, AXIS_RANGE), Item(DIJOFS_RZ, 16384),
   Item(DIJOFS_SLIDER(0), -AXIS_RANGE),
   Item(DIJOFS_POV(0), JOY_POVRIGHT), Item(DIJOFS_POV(0), JOY_POVCENTERED),
   Item(DIJOFS_POV(1), JOY_POVFORWARD), Item(DIJOFS_BUTTON(0), 128)}

\* bound on the deltas of one run of SpecAxis
MaxAxisDeltas == 2

NextAxis == DataNext(AxisScenarios, AxisItems, MaxAxisDeltas)

SpecAxis == Init /\ [][NextAxis]_vars

\* the raw values a hat reports: every direction, both sides of every
\* boundary, the wrap, and the two forms of "centered"
HatRaws ==
  {-1, 0, 1, 4500, 8999, 9000, 9001, 13500, 17999, 18000, 18001, 22500, 26999, 27000,
   27001, 31500, 35999, 36000, 36001, JOY_POVCENTERED}

HatItems == {Item(DIJOFS_POV(0), raw) : raw \in HatRaws}

\* bound on the deltas of one run of SpecHat
MaxHatDeltas == 2

NextHat == DataNext(DataScenarios, HatItems, MaxHatDeltas)

SpecHat == Init /\ [][NextHat]_vars

\* presses and releases of the two buttons of the pad
ButtonItems ==
  {Item(DIJOFS_BUTTON(0), 128), Item(DIJOFS_BUTTON(0), 0),
   Item(DIJOFS_BUTTON(1), 128), Item(DIJOFS_BUTTON(1), 0)}

\* bound on the deltas of one run of SpecButtons
MaxButtonDeltas == 4

NextButtons ==
  DataNext({<<Controller(PadCaps, FALSE, "none")>>}, ButtonItems, MaxButtonDeltas)

SpecButtons == Init /\ [][NextButtons]_vars

(* ------------------------- release and the poller --------------------- *)

\* this step emits an event for device s
EmitsFor(s) ==
  poller.num = s /\ poller.pc = "dispatch" /\ Len(poller'.out) > Len(poller.out)

\* this step is the joystick thread running update_joystick on device s:
\* it leaves the gotten test with something other than a plain return to
\* the wait (the buffer drained, a re-acquire scheduled, a batch to dispatch)
Drains(s) ==
  /\ poller.pc = "in_cs" /\ poller.num = s /\ poller' # poller
  /\ dinput' # dinput \/ ui' # ui \/ poller'.pc # "wait"

\* C1: while a device is not gotten (from joydx_release_joystick to the
\* next joydx_get_joystick of it, and before the first one), no step emits
\* an event for it, no step runs update_joystick on it, and the joystick
\* thread is never inside update_joystick for it.
C1_ReleasedDeviceIsQuiet ==
  [][\A s \in Slots :
       (/\ ~joydx_joystick[s].gotten
        /\ s \in DOMAIN joydx_joystick'
        /\ ~joydx_joystick'[s].gotten)
       => /\ ~EmitsFor(s)
          /\ ~Drains(s)
          /\ ~(poller.num = s /\ poller.pc \in {"lock_es", "dispatch"})
          /\ ~(poller'.num = s /\ poller'.pc \in {"lock_es", "dispatch"})]_vars

\* a released device (it was gotten and updated before) has unread deltas
\* and the joystick thread, woken for it, is inside the driver lock at the
\* gotten test
C1_Witness ==
  \E s \in Slots :
    /\ nMut[s] > 0
    /\ ~joydx_joystick[s].gotten
    /\ main.pc = "idle"
    /\ poller.pc = "in_cs" /\ poller.num = s
    /\ dinput[s].acquired /\ dinput[s].buffer # <<>>

(* --------------------------- shutdown and the poller ------------------ *)

\* the joystick thread exists and has not returned from joydx_thread_proc
PollerAlive == poller.pc \notin {"none", "exited"}

\* the objects the joystick thread waits on, locks or reads
PollerResourcesIntact ==
  /\ joydx_thread_wakers[STOP_EVENT].h # "NULL"
  /\ joydx_thread_cs.state = "init"
  /\ \A s \in Slots :
       s < joydx_num_joysticks =>
         /\ dinput[s].dev = "open"
         /\ joydx_thread_wakers[JOYSTICK_WAKER(s)].h # "NULL"

\* C2: as long as the joystick thread has not exited, the stop handle, the
\* driver lock, every device handle and every wake handle are intact:
\* joydx_exit destroys them only after the thread has exited.
C2_NothingFreedUnderPoller == PollerAlive => PollerResourcesIntact

\* joydx_exit is in its destroy loop, has released a device and its wake
\* handle, and the joystick thread has exited
C2_Witness ==
  /\ main.pc = "exit_destroy"
  /\ main.i > 0
  /\ poller.pc = "exited"
  /\ dinput[0].dev = "released"
  /\ joydx_thread_wakers[JOYSTICK_WAKER(0)].h = "NULL"
  /\ joydx_thread_cs.state = "deleted"

(* ---------------------- shutdown during a burst ----------------------- *)

\* the steps of joydx_thread_proc
PollerStep ==
  \/ joydx_thread_proc_wait
  \/ joydx_thread_proc_enter
  \/ \E hr \in {"DI_OK", "DI_BUFFEROVERFLOW", "DIERR_OTHER", "DIERR_NOTACQUIRED",
                "DIERR_INPUTLOST"} : update_joystick_drain(hr)
  \/ update_joystick_lock
  \/ \E slots \in Slots2 : update_joystick_dispatch(slots)
  \/ update_joystick_unlock

\* the steps of joydx_exit after SetEvent
ExitStep == joydx_exit_join \/ joydx_exit_free \/ joydx_exit_destroy \/ joydx_exit_done

\* the window thread runs a call that wnd_schedule_proc queued
UiStep == \E granted \in BOOLEAN : wnd_scheduled_acquire(granted)

\* the scheduler lets a thread that can run take its next step, and the
\* window thread works off its queue
FairSpec == Spec /\ WF_vars(PollerStep) /\ WF_vars(ExitStep) /\ WF_vars(UiStep)

\* joydx_exit has set the stop event while update_joystick had items to dispatch
ShutdownDuringBurst == main.pc = "exit_join" /\ main.burst

\* joydx_exit has returned: no thread, no device, no handle
ShutdownComplete ==
  /\ main.pc = "idle"
  /\ joydx_thread = "NULL" /\ poller.pc = "none"
  /\ joydx_num_joysticks = 0
  /\ joystick_dinput = "NULL"
  /\ joydx_thread_wakers[STOP_EVENT].h = "NULL"
  /\ \A s \in Slots :
       dinput[s].dev # "open" /\ joydx_thread_wakers[JOYSTICK_WAKER(s)].h = "NULL"

Mutates(s) == joydx_joystick'[s].joystate # joydx_joystick[s].joystate

\* C4: while the driver runs, a step changes a device's joystate or emits
\* an event for it only with the device's event-source lock held by the
\* joystick thread, before and after the step; joydx_get_state copies with
\* the lock held by the primary thread; the copy it returns is the state
\* as of the latest release of the lock by update_joystick (never a state
\* in the middle of a batch) and reflects no fewer deltas than the latest
\* event emitted before the call.
C4_SnapshotConsistent ==
  /\ [](/\ poller.pc = "dispatch" => es[poller.num].owner = "poller"
        /\ main.pc \in {"state_copy", "state_unlock"} => es[main.j].owner = "main"
        /\ main.pc = "state_unlock"
             => main.ret[1] = committed[main.j] /\ main.ret[2] >= main.seen)
  /\ [][\A s \in Slots :
          (/\ joydx_thread = "handle"
           /\ s \in DOMAIN joydx_joystick'
           /\ Mutates(s) \/ EmitsFor(s))
          => es[s].owner = "poller" /\ es'[s].owner = "poller"]_vars

\* joydx_get_state copies the state, after an event was emitted, while
\* the joystick thread waits for the event-source lock with a new batch
C4_Witness ==
  /\ main.pc = "state_copy"
  /\ main.seen > 0
  /\ poller.pc = "lock_es" /\ poller.num = main.j
  /\ es[main.j].owner = "main"

(* ------------------------------ axis values --------------------------- *)

\* -1.0 <= p <= +1.0
InUnitRange(p) == -p[2] <= p[1] /\ p[1] <= p[2]

\* C5: in every state, every axis value stored in the snapshot of every
\* device lies in [-1.0, +1.0], whatever deltas with raw axis values in
\* [-32767, +32767] were dispatched.
C5_AxesInUnitRange ==
  \A s \in Slots :
    \A k \in DOMAIN joydx_joystick[s].joystate.stick :
      InUnitRange(joydx_joystick[s].joystate.stick[k])

\* a device holds -1.0 on one axis of its schema, from a delta with the
\* raw value -32767
C5_Witness ==
  \E s \in Slots :
    /\ joydx_joystick[s].info.num_sticks > 0
    /\ joydx_joystick[s].info.num_axes[0] > 0
    /\ nMut[s] > 0
    /\ StickAxis(joydx_joystick[s].joystate, 0, 0) = Float(-AXIS_RANGE, AXIS_RANGE)

\* p is -1.0, 0.0 or +1.0
IsThreeValued(p) == \E v \in {-1, 0, 1} : FloatEq(p, Float(v, 1))

\* C6: in every state, both axes of every stick built from a hat of the
\* device hold -1.0, 0.0 or +1.0.
C6_HatAxesThreeValued ==
  \A s \in Slots :
    \A i \in 0..(joydx_joystick[s].caps_and_names.num_povs - 1) :
      \A k \in {0, 1} :
        IsThreeValued(StickAxis(joydx_joystick[s].joystate,
                                joydx_joystick[s].pov_mapping_stick[i], k))

(* ------------------------------ hat values ---------------------------- *)

\* update_joystick has just dispatched a delta of hat 0 on a device that has it
HatDispatched ==
  /\ poller.pc = "dispatch" /\ poller.i > 0
  /\ poller.buffer[poller.i].dwOfs = DIJOFS_POV(0)
  /\ joydx_joystick[poller.num].caps_and_names.num_povs > 0

\* the raw value of that delta
HatRaw == poller.buffer[poller.i].dwData

\* the two axes of the stick of hat 0 equal (xy[1], xy[2])
HatHolds(xy) ==
  LET joy == joydx_joystick[poller.num]
      hs == joy.pov_mapping_stick[0]
  IN /\ FloatEq(StickAxis(joy.joystate, hs, 0), Float(xy[1], 1))
     /\ FloatEq(StickAxis(joy.joystate, hs, 1), Float(xy[2], 1))

\* the direction table
HatTable(raw) ==
  IF raw = 0 \/ raw = 36000 THEN <<0, -1>>
  ELSE IF 0 < raw /\ raw < 9000 THEN <<1, -1>>
  ELSE IF raw = 9000 THEN <<1, 0>>
  ELSE IF 9000 < raw /\ raw < 18000 THEN <<1, 1>>
  ELSE IF raw = 18000 THEN <<0, 1>>
  ELSE IF 18000 < raw /\ raw < 27000 THEN <<-1, 1>>
  ELSE IF raw = 27000 THEN <<-1, 0>>
  ELSE IF 27000 < raw /\ raw < 36000 THEN <<-1, -1>>
  ELSE <<0, 0>>

\* C7: after a hat delta is dispatched, the two axes of the hat's stick
\* hold the (x, y) the direction table gives for the raw value, for every
\* raw value (directions, boundaries, the 36000 wrap, centered).
C7_HatFollowsTable == HatDispatched => HatHolds(HatTable(HatRaw))

\* a hat delta between left and forward was dispatched: (-1, -1)
C7_Witness == HatDispatched /\ HatRaw = 31500 /\ HatHolds(<<-1, -1>>)

\* the decision rule as the specification words it
RuleAsWorded(raw) ==
  <<IF 9000 < raw /\ raw < 27000 THEN 1
    ELSE IF (0 < raw /\ raw < 9000) \/ (27000 < raw /\ raw < 36000) THEN -1
    ELSE 0,
    IF 0 <= raw /\ raw <= 36000 /\ (raw <= 9000 \/ raw >= 27000) THEN -1
    ELSE IF 9000 < raw /\ raw < 27000 THEN 1
    ELSE 0>>

\* C8 as stated: after a hat delta is dispatched the axes hold what the
\* worded decision rule gives, and that rule agrees with the direction table.
C8_RuleAsWorded ==
  HatDispatched =>
    /\ HatHolds(RuleAsWorded(HatRaw))
    /\ RuleAsWorded(HatRaw) = HatTable(HatRaw)

\* the decision rule handle_pov_event follows
RuleAmended(raw) ==
  <<IF 0 < raw /\ raw < 18000 THEN 1
    ELSE IF 18000 < raw /\ raw < 36000 THEN -1
    ELSE 0,
    IF (0 <= raw /\ raw < 9000) \/ (27000 < raw /\ raw <= 36000) THEN -1
    ELSE IF 9000 < raw /\ raw < 27000 THEN 1
    ELSE 0>>

\* C8, amended: x = +1 if 0 < raw < 18000, -1 if 18000 < raw < 36000,
\* otherwise 0; y = -1 if 0 <= raw < 9000 or 27000 < raw <= 36000, +1 if
\* 9000 < raw < 27000, otherwise 0; after a hat delta is dispatched the
\* axes hold what this rule gives, and the rule agrees with the table.
C8_RuleAmended ==
  HatDispatched =>
    /\ HatHolds(RuleAmended(HatRaw))
    /\ RuleAmended(HatRaw) = HatTable(HatRaw)

\* a hat delta between forward and right was dispatched: (+1, -1), where
\* the worded rule gives x = -1
C8_Witness == HatDispatched /\ HatRaw = 4500 /\ HatHolds(<<1, -1>>)

(* ------------------------------ hat events ---------------------------- *)

\* this step is update_joystick dispatching a delta of hat 0 on a device
\* that has it
HatStep ==
  /\ poller.pc = "dispatch" /\ poller'.pc = "dispatch" /\ poller'.i = poller.i + 1
  /\ poller.buffer[poller.i + 1].dwOfs = DIJOFS_POV(0)
  /\ joydx_joystick[poller.num].caps_and_names.num_povs > 0

\* the events a step emitted
NewEvents == SubSeq(poller'.out, Len(poller.out) + 1, Len(poller'.out))

\* whether the event source served the requests the step made for an unused event
AskedSlots == poller'.slots[Len(poller'.slots)]

\* C9: a step that dispatches a hat delta stores the table's (x, y) in the
\* hat's two axes in every case, and emits an axis event for axis k
\* exactly when the new value of axis k differs from the one stored
\* before, a subscriber wants axis events and the event source serves the
\* request for an unused event; the events carry the hat's stick, k and
\* the new value, axis 0 first.  A delta that changes neither axis emits
\* nothing.
C9_HatEventsOnEdges ==
  [][HatStep =>
       LET num == poller.num
           hs == joydx_joystick[num].pov_mapping_stick[0]
           old0 == StickAxis(joydx_joystick[num].joystate, hs, 0)
           old1 == StickAxis(joydx_joystick[num].joystate, hs, 1)
           new0 == StickAxis(joydx_joystick'[num].joystate, hs, 0)
           new1 == StickAxis(joydx_joystick'[num].joystate, hs, 1)
           xy == HatTable(poller.buffer[poller.i + 1].dwData)
           wanted == AL_EVENT_JOYSTICK_AXIS \in es[num].wants
           changed0 == ~FloatEq(old0, new0)
           changed1 == ~FloatEq(old1, new1)
           ev0 == changed0 /\ wanted /\ AskedSlots[1]
           ev1 == changed1 /\ wanted /\ AskedSlots[IF changed0 THEN 2 ELSE 1]
       IN /\ FloatEq(new0, Float(xy[1], 1)) /\ FloatEq(new1, Float(xy[2], 1))
          /\ NewEvents =
               (IF ev0 THEN <<JoyEvent(AL_EVENT_JOYSTICK_AXIS, hs, 0, new0, 0)>> ELSE <<>>)
               \o (IF ev1 THEN <<JoyEvent(AL_EVENT_JOYSTICK_AXIS, hs, 1, new1, 0)>> ELSE <<>>)
          /\ (~changed0 /\ ~changed1) => NewEvents = <<>>]_vars

\* two hat deltas with the same position were dispatched in one round for
\* a subscriber, every request for an unused event was served, and only
\* the first delta produced an event (axis 0 went from 0 to +1)
C9_Witness ==
  /\ poller.pc = "dispatch" /\ poller.i = 2
  /\ poller.buffer[1] = Item(DIJOFS_POV(0), JOY_POVRIGHT)
  /\ poller.buffer[2] = Item(DIJOFS_POV(0), JOY_POVRIGHT)
  /\ joydx_joystick[poller.num].caps_and_names.num_povs > 0
  /\ AL_EVENT_JOYSTICK_AXIS \in es[poller.num].wants
  /\ poller.slots = <<<<TRUE>>, <<>>>>
  /\ Len(poller.out) = 1

(* ----------------------------- button bursts -------------------------- *)

\* the button a raw offset of the button range names
ButtonOf(item) == item.dwOfs - DIJOFS_BUTTON0

\* bit 7 of the low byte of the raw value: the button is pressed
IsPress(item) == item.dwData % 256 >= 128

\* update_joystick has dispatched every item of a round made of deltas of
\* buttons the device has
ButtonRoundDone ==
  /\ poller.pc = "dispatch" /\ poller.i = Len(poller.buffer)
  /\ \A k \in 1..Len(poller.buffer) :
       /\ ButtonOf(poller.buffer[k]) >= 0
       /\ ButtonOf(poller.buffer[k]) < joydx_joystick[poller.num].info.num_buttons

\* the snapshot holds, for every button of the round, 32767 if its last
\* delta was a press and 0 if it was a release; no button holds another value
ButtonsReflectLastDelta ==
  LET buf == poller.buffer
      js == joydx_joystick[poller.num].joystate
  IN /\ \A k \in 1..Len(buf) :
          (\A m \in (k + 1)..Len(buf) : ButtonOf(buf[m]) # ButtonOf(buf[k]))
          => Button(js, ButtonOf(buf[k])) = IF IsPress(buf[k]) THEN 32767 ELSE 0
     /\ \A b \in DOMAIN js.button : js.button[b] \in {0, 32767}

\* the event of a button delta
ButtonEventOf(item) ==
  JoyEvent(IF IsPress(item) THEN AL_EVENT_JOYSTICK_BUTTON_DOWN
           ELSE AL_EVENT_JOYSTICK_BUTTON_UP, 0, 0, FloatZero, ButtonOf(item))

\* the events of the first n deltas of the round, one per delta whose event
\* type a subscriber wants (and, with onlyServed, whose request for an unused
\* event was served), in delta order
RECURSIVE ButtonEvents(_, _)
ButtonEvents(n, onlyServed) ==
  IF n = 0
  THEN <<>>
  ELSE LET item == poller.buffer[n]
           wanted == ButtonEventOf(item).type \in es[poller.num].wants
           served == poller.slots[n] = <<TRUE>>
       IN ButtonEvents(n - 1, onlyServed)
          \o (IF wanted /\ (served \/ ~onlyServed) THEN <<ButtonEventOf(item)>> ELSE <<>>)

\* C10 as stated: after a round of button deltas the snapshot reflects the
\* last delta of every button, and the round has emitted exactly one event
\* per delta whose type a subscriber wants, in delta order.
C10_OneEventPerDelta ==
  ButtonRoundDone =>
    /\ ButtonsReflectLastDelta
    /\ poller.out = ButtonEvents(Len(poller.buffer), FALSE)

\* C10, amended: after a round of button deltas the snapshot reflects the
\* last delta of every button (32767 or 0, never another value), and the
\* round has emitted exactly one event per delta whose type a subscriber
\* wants and for which the event source supplied an unused event, in delta
\* order, each carrying the delta's button.
C10_OneEventPerServedDelta ==
  ButtonRoundDone =>
    /\ ButtonsReflectLastDelta
    /\ poller.out = ButtonEvents(Len(poller.buffer), TRUE)

\* a round of four deltas, with a press and a release of one button and a
\* delta of the other, whose every event was wanted and served
C10_Witness ==
  /\ ButtonRoundDone
  /\ Len(poller.buffer) = 4
  /\ poller.buffer[1] = Item(DIJOFS_BUTTON(0), 128)
  /\ poller.buffer[4] = Item(DIJOFS_BUTTON(0), 0)
  /\ \E k \in 2..3 : ButtonOf(poller.buffer[k]) = 1
  /\ es[poller.num].wants = AL_ALL_JOYSTICK_EVENTS
  /\ Len(poller.out) = 4

(* ----------------------- the layout of every device ------------------- *)

\* the number of distinct button counts tried between 0 and MAX_BUTTONS
MaxButtonCounts == 3

\* some button counts, 0 and MAX_BUTTONS among them
ButtonCounts == {0, MAX_BUTTONS} \cup 1..(MaxButtonCounts - 2)

\* every capability map object_enum_callback can leave behind: each of the
\* six axes present or absent, 0..MAX_SLIDERS sliders, 0..MAX_POVS hats
LayoutCaps ==
  {Caps(axes, sliders, povs, buttons) :
     axes \in SUBSET {"x", "y", "z", "rx", "ry", "rz"},
     sliders \in 0..MAX_SLIDERS, povs \in 0..MAX_POVS, buttons \in ButtonCounts}

\* one controller of any capability map is enumerated
NextLayout ==
  \E caps \in LayoutCaps : joydx_init(<<Controller(caps, FALSE, "none")>>, "ok", TRUE)

SpecLayout == Init /\ [][NextLayout]_vars

(* ------------------------- enumeration at work ------------------------ *)

\* the controllers the backend reports: an event-driven pad on which any
\* one step of the callback fails or none does, and a polled hat switch
\* on which none fails, the first fails or the timer cannot be created
EnumControllers ==
  {Controller(PadCaps, FALSE, f) : f \in {"none"} \cup {EnumSteps[k] : k \in DOMAIN EnumSteps}}
    \cup {Controller(HatCaps, TRUE, f) : f \in {"none", "create", "timer"}}

\* no controller; one; one before or after a hat switch that works; one
\* between a pad and a hat switch that work
EnumScenarios ==
  {<<>>} \cup {<<c>> : c \in EnumControllers}
    \cup {<<c, Controller(HatCaps, TRUE, "none")>> : c \in EnumControllers}
    \cup {<<Controller(HatCaps, TRUE, "none"), c>> : c \in EnumControllers}
    \cup {<<Controller(PadCaps, FALSE, "none"), c, Controller(HatCaps, TRUE, "none")>> :
            c \in EnumControllers}

\* the driver is brought up and shut down, and the window changes focus
NextEnum ==
  \/ \E attached \in EnumScenarios, outcome \in InitOutcomes, granted \in BOOLEAN :
       joydx_init(attached, outcome, granted)
  \/ joydx_exit_stop
  \/ joydx_exit_join
  \/ joydx_exit_free
  \/ joydx_exit_destroy
  \/ joydx_exit_done
  \/ joydx_thread_proc_wait
  \/ wnd_focus_gain
  \/ wnd_focus_loss

SpecEnum == Init /\ [][NextEnum]_vars

(* ------------------------------ axis deltas --------------------------- *)

\* 1 if b, else 0
B(b) == IF b THEN 1 ELSE 0

\* the capability map has one of X, Y, Z; one of RX, RY, RZ
HasXyz(caps) == caps.have["x"] \/ caps.have["y"] \/ caps.have["z"]

HasR(caps) == caps.have["rx"] \/ caps.have["ry"] \/ caps.have["rz"]

\* The raw object an offset names: one of the six axes, or a slider.
AxisObjectAt(ofs) ==
  CASE ofs = DIJOFS_X -> [kind |-> "axis", name |-> "x", i |-> 0]
    [] ofs = DIJOFS_Y -> [kind |-> "axis", name |-> "y", i |-> 0]
    [] ofs = DIJOFS_Z -> [kind |-> "axis", name |-> "z", i |-> 0]
    [] ofs = DIJOFS_RX -> [kind |-> "axis", name |-> "rx", i |-> 0]
    [] ofs = DIJOFS_RY -> [kind |-> "axis", name |-> "ry", i |-> 0]
    [] ofs = DIJOFS_RZ -> [kind |-> "axis", name |-> "rz", i |-> 0]
    [] ofs = DIJOFS_SLIDER(0) -> [kind |-> "slider", name |-> "", i |-> 0]
    [] ofs = DIJOFS_SLIDER(1) -> [kind |-> "slider", name |-> "", i |-> 1]
    [] OTHER -> [kind |-> "other", name |-> "", i |-> 0]

\* the capability map has the object
ObjectPresent(caps, obj) ==
  CASE obj.kind = "axis" -> caps.have[obj.name]
    [] obj.kind = "slider" -> obj.i < caps.num_sliders
    [] OTHER -> FALSE

\* The (stick, axis) the logical schema gives a present axis or slider:
\* the (X, Y, Z) stick is stick 0, the (RX, RY, RZ) stick follows it, then
\* one stick per slider; within a stick the present axes are numbered in
\* canonical order.
SchemaPlace(caps, obj) ==
  CASE obj.kind = "slider" -> <<B(HasXyz(caps)) + B(HasR(caps)) + obj.i, 0>>
    [] obj.name = "x" -> <<0, 0>>
    [] obj.name = "y" -> <<0, B(caps.have["x"])>>
    [] obj.name = "z" -> <<0, B(caps.have["x"]) + B(caps.have["y"])>>
    [] obj.name = "rx" -> <<B(HasXyz(caps)), 0>>
    [] obj.name = "ry" -> <<B(HasXyz(caps)), B(caps.have["rx"])>>
    [] obj.name = "rz" -> <<B(HasXyz(caps)), B(caps.have["rx"]) + B(caps.have["ry"])>>

\* this step is update_joystick dispatching a delta of an axis or slider
\* the device has
AxisStep ==
  /\ poller.pc = "dispatch" /\ poller'.pc = "dispatch" /\ poller'.i = poller.i + 1
  /\ ObjectPresent(joydx_joystick[poller.num].caps_and_names,
                   AxisObjectAt(poller.buffer[poller.i + 1].dwOfs))

\* the step stores raw / 32767 at the schema's place of the object and
\* changes nothing else of the snapshot
AxisStored ==
  LET joy == joydx_joystick[poller.num]
      item == poller.buffer[poller.i + 1]
      place == SchemaPlace(joy.caps_and_names, AxisObjectAt(item.dwOfs))
      js1 == joydx_joystick'[poller.num].joystate
  IN /\ joy.mapping = joydx_joystick'[poller.num].mapping
     /\ \A s \in 0..(AL_MAX_JOYSTICK_STICKS - 1), a \in 0..2 :
          IF <<s, a>> = place
          THEN FloatEq(StickAxis(js1, s, a), Float(item.dwData, 32767))
          ELSE StickAxis(js1, s, a) = StickAxis(joy.joystate, s, a)
     /\ js1.button = joy.joystate.button

\* the one axis event of the step: the schema's place and the new position
AxisEventOf ==
  LET joy == joydx_joystick[poller.num]
      item == poller.buffer[poller.i + 1]
      place == SchemaPlace(joy.caps_and_names, AxisObjectAt(item.dwOfs))
  IN JoyEvent(AL_EVENT_JOYSTICK_AXIS, place[1], place[2], Float(item.dwData, 32767), 0)

\* C11 as stated: a delta on a present axis or slider stores raw / 32767
\* at the place the schema assigns, changes no other snapshot slot and
\* emits one axis event carrying that stick, axis and position.
C11_AxisDeltaAlwaysEmits ==
  [][AxisStep => AxisStored /\ NewEvents = <<AxisEventOf>>]_vars

\* C11, amended: a delta on a present axis or slider stores raw / 32767 at
\* the place the schema assigns and changes no other snapshot slot; it
\* emits one axis event carrying that stick, axis and position if a
\* subscriber wants axis events and the event source supplies an unused
\* event, and no event otherwise.
C11_AxisDeltaStoredAndEmitted ==
  [][AxisStep =>
       /\ AxisStored
       /\ NewEvents =
            IF AL_EVENT_JOYSTICK_AXIS \in es[poller.num].wants /\ AskedSlots = <<TRUE>>
            THEN <<AxisEventOf>>
            ELSE <<>>]_vars

\* on the pad (X, Y), the delta (Y, -1) after the delta (X, +32767) was
\* dispatched for a subscriber: the events are (stick 0, axis 0, 1.0) and
\* (stick 0, axis 1, -1/32767), and the snapshot holds both values
C11_Witness ==
  /\ poller.pc = "dispatch" /\ poller.i = 2
  /\ joydx_joystick[poller.num].caps_and_names = PadCaps
  /\ poller.buffer = <<Item(DIJOFS_X, AXIS_RANGE), Item(DIJOFS_Y, -1)>>
  /\ poller.out = <<JoyEvent(AL_EVENT_JOYSTICK_AXIS, 0, 0, Float(32767, 32767), 0),
                    JoyEvent(AL_EVENT_JOYSTICK_AXIS, 0, 1, Float(-1, 32767), 0)>>
  /\ FloatEq(StickAxis(joydx_joystick[poller.num].joystate, 0, 0), Float(1, 1))
  /\ StickAxis(joydx_joystick[poller.num].joystate, 0, 1) = Float(-1, 32767)

(* ------------------------------ the schema ---------------------------- *)

\* the axes of `names` the device has
PresentOf(joy, names) == {n \in names : joy.caps_and_names.have[n]}

\* the canonical position of an axis within its stick
Canonical(name) ==
  CASE name \in {"x", "rx"} -> 0
    [] name \in {"y", "ry"} -> 1
    [] name \in {"z", "rz"} -> 2

\* The present axes of one group sit on one stick, their axis indices are
\* 0..k-1 in canonical order, and the stick has k axes, 1 <= k <= 3.
GroupPacked(joy, names) ==
  LET present == PresentOf(joy, names)
      k == Cardinality(present)
  IN present # {} =>
       /\ \A a, b \in present : joy.mapping[a].stick = joy.mapping[b].stick
       /\ {joy.mapping[a].axis : a \in present} = 0..(k - 1)
       /\ \A a, b \in present :
            Canonical(a) < Canonical(b) => joy.mapping[a].axis < joy.mapping[b].axis
       /\ \A a \in present : joy.info.num_axes[joy.mapping[a].stick] = k
       /\ k \in 1..3

\* C12: within the (X, Y, Z) stick and within the (RX, RY, RZ) stick the
\* present axes have the consecutive indices 0, 1, 2 in canonical order,
\* with no hole for an absent axis, and the stick has 1 to 3 axes.
C12_AxesPackedInOrder ==
  \A n \in Slots :
    n < joydx_num_joysticks =>
      /\ GroupPacked(joydx_joystick[n], {"x", "y", "z"})
      /\ GroupPacked(joydx_joystick[n], {"rx", "ry", "rz"})

\* a device with Y, Z and RZ only: Y is (0, 0), Z is (0, 1), RZ is (1, 0)
C12_Witness ==
  /\ joydx_num_joysticks = 1
  /\ PresentOf(joydx_joystick[0], {"x", "y", "z", "rx", "ry", "rz"}) = {"y", "z", "rz"}
  /\ joydx_joystick[0].mapping["y"] = AxisMapping(0, 0)
  /\ joydx_joystick[0].mapping["z"] = AxisMapping(0, 1)
  /\ joydx_joystick[0].mapping["rz"] = AxisMapping(1, 0)
  /\ joydx_joystick[0].info.num_axes[0] = 2

\* The sticks of a device in the fixed order: (X, Y, Z) stick, (RX, RY, RZ)
\* stick, one per slider, one per hat.
SticksInOrder(joy) ==
  LET caps == joy.caps_and_names
      xyz == B(HasXyz(caps))
      r == B(HasR(caps))
  IN /\ \A a \in PresentOf(joy, {"x", "y", "z"}) : joy.mapping[a].stick = 0
     /\ \A a \in PresentOf(joy, {"rx", "ry", "rz"}) : joy.mapping[a].stick = xyz
     /\ \A i \in 0..(caps.num_sliders - 1) :
          /\ joy.slider_mapping[i] = AxisMapping(xyz + r + i, 0)
          /\ joy.info.num_axes[xyz + r + i] = 1
     /\ \A i \in 0..(caps.num_povs - 1) :
          /\ joy.pov_mapping_stick[i] = xyz + r + caps.num_sliders + i
          /\ joy.info.num_axes[xyz + r + caps.num_sliders + i] = 2
     /\ joy.info.num_sticks = xyz + r + caps.num_sliders + caps.num_povs
     /\ joy.info.num_sticks <= 2 + MAX_SLIDERS + MAX_POVS
     /\ joy.info.num_buttons = caps.num_buttons

\* C13: the logical sticks are numbered from 0 without a gap in the order
\* (X, Y, Z) stick, (RX, RY, RZ) stick, one one-axis stick per slider, one
\* two-axis stick per hat; the stick count is the sum of these and at most
\* 2 + 2 + 4; the button count is the capability map's.
C13_SticksInFixedOrder ==
  \A n \in Slots : n < joydx_num_joysticks => SticksInOrder(joydx_joystick[n])

\* a device with everything: 8 sticks, the last hat on stick 7, 32 buttons
C13_Witness ==
  /\ joydx_num_joysticks = 1
  /\ joydx_joystick[0].caps_and_names =
       Caps({"x", "y", "z", "rx", "ry", "rz"}, MAX_SLIDERS, MAX_POVS, MAX_BUTTONS)
  /\ joydx_joystick[0].info.num_sticks = 8
  /\ joydx_joystick[0].slider_mapping[1] = AxisMapping(3, 0)
  /\ joydx_joystick[0].pov_mapping_stick[3] = 7
  /\ joydx_joystick[0].info.num_buttons = 32

(* ----------------------- controllers that fail ------------------------ *)

\* no step of the callback fails on the controller (an event-driven
\* device creates no timer)
Usable(ctrl) == ctrl.fail = "none" \/ (ctrl.fail = "timer" /\ ~ctrl.polled)

\* the controllers of a list on which no step fails
GoodOnes(attached) == SelectSeq(attached, Usable)

\* after the step, the slots 0.. hold the usable controllers of the list
\* in order, and the count is their number
EnumeratedAs(attached) ==
  LET good == GoodOnes(attached)
  IN /\ joydx_num_joysticks' = Len(good)
     /\ \A k \in 1..Len(good) :
          /\ joydx_joystick'[k - 1].caps_and_names = good[k].caps
          /\ dinput'[k - 1].dev = "open"
          /\ dinput'[k - 1].polled = good[k].polled
          /\ joydx_thread_wakers'[JOYSTICK_WAKER(k - 1)].h =
               IF good[k].polled THEN "timer" ELSE "event"

\* every system object created was closed or released once, unless it
\* belongs to an occupied slot: nothing leaked, nothing released twice
HandlesAccounted ==
  /\ \A w \in DOMAIN joydx_thread_wakers :
       joydx_thread_wakers[w].live = B(joydx_thread_wakers[w].h # "NULL")
  /\ \A n \in DOMAIN dinput :
       /\ dinput[n].live = B(dinput[n].dev = "open")
       /\ dinput[n].dev = "open" => n < joydx_num_joysticks

\* C14: a controller whose setup fails at any step of the callback takes
\* no slot (the count is not incremented, the next controller is written
\* to the same slot), its wake handle and device are released exactly once
\* if they were created, and the controllers after it are enumerated.
C14_FailedControllerSkipped ==
  /\ []HandlesAccounted
  /\ [][\A granted \in BOOLEAN :
          joydx_init(main'.reported, "ok", granted) => EnumeratedAs(main'.reported)]_vars

\* a polled hat switch is in slot 0; after it a pad failed at
\* SetEventNotification: slot 1 was written with the pad's layout, is not
\* counted, and its device and wake handle are gone
C14_Witness ==
  /\ main.reported = <<Controller(HatCaps, TRUE, "none"), Controller(PadCaps, FALSE, "notify")>>
  /\ joydx_num_joysticks = 1
  /\ joydx_joystick[0].caps_and_names = HatCaps
  /\ 1 \in Slots
  /\ joydx_joystick[1].caps_and_names = PadCaps
  /\ joydx_joystick[1].device = "open"
  /\ dinput[1].dev = "none" /\ dinput[1].live = 0
  /\ joydx_thread_wakers[JOYSTICK_WAKER(1)] = NullHandle
  /\ joydx_thread = "handle"

(* ----------------------------- init that fails ------------------------ *)

\* no thread, no stop event, no critical section, no device acquired
Inactive ==
  /\ joydx_thread = "NULL"
  /\ poller.pc = "none"
  /\ joydx_thread_wakers[STOP_EVENT].h = "NULL"
  /\ joydx_thread_wakers[STOP_EVENT].live = 0
  /\ joydx_thread_cs.state # "init"
  /\ \A n \in DOMAIN dinput : ~dinput[n].acquired

\* C15: when the backend cannot be opened, EnumDevices fails or no
\* controller is usable, joydx_init returns false and leaves the driver
\* inactive: no thread, no stop event, no critical section, no device
\* acquired; and the driver stays so while it is down.
C15_FailedInitLeavesDriverInactive ==
  /\ []((main.pc = "idle" /\ ~main.init_ret) => Inactive)
  /\ [][\A outcome \in InitOutcomes, granted \in BOOLEAN :
          (joydx_init(main'.reported, outcome, granted)
            /\ (outcome # "ok" \/ GoodOnes(main'.reported) = <<>>))
          => (~main'.init_ret /\ Inactive')]_vars

\* joydx_init has returned false because the one controller, a pad, failed
\* at SetDataFormat: the backend is open, slot 0 holds the pad's
\* capabilities, and the driver is inactive
C15_Witness ==
  /\ main.pc = "idle" /\ ~main.init_ret
  /\ main.reported = <<Controller(PadCaps, FALSE, "format")>>
  /\ joystick_dinput = "open"
  /\ joydx_num_joysticks = 0
  /\ 0 \in Slots
  /\ joydx_joystick[0].caps_and_names = PadCaps
  /\ joydx_joystick[0].info = ZeroInfo
  /\ joydx_thread_cs.state = "uninit"
  /\ Inactive

(* ------------------------- drains that do nothing --------------------- *)

\* this step is update_joystick on a gotten device, GetDeviceData
\* answering one of `hrs`
DrainAnswers(hrs) ==
  /\ poller.pc = "in_cs" /\ poller'.pc # "in_cs"
  /\ joydx_joystick[poller.num].gotten
  /\ poller'.hr # <<>> /\ poller'.hr[1] \in hrs

\* the step returns from update_joystick without the event-source lock,
\* the snapshot as it was and no event emitted
ReturnsUntouched ==
  /\ poller'.pc = "wait"
  /\ es' = es
  /\ joydx_joystick' = joydx_joystick
  /\ committed' = committed
  /\ nMut' = nMut /\ evMut' = evMut
  /\ poller'.out = <<>>

\* C16: when GetDeviceData answers DIERR_NOTACQUIRED or DIERR_INPUTLOST,
\* update_joystick queues one _al_win_joystick_dinput_acquire for the
\* window thread (the device is not acquired by the step itself) and
\* returns with the snapshot unchanged, no event and the event-source
\* lock not taken; on any other error it does the same and queues nothing.
C16_LostDeviceSchedulesReacquire ==
  [][(DrainAnswers({"DIERR_NOTACQUIRED", "DIERR_INPUTLOST"}) =>
        (ui'.scheduled = ui.scheduled + 1 /\ dinput' = dinput /\ ReturnsUntouched))
     /\ (DrainAnswers({"DIERR_OTHER"}) => (ui' = ui /\ ReturnsUntouched))]_vars

\* two drains of a gotten device that lost the focus have each queued a
\* re-acquire; the device is still not acquired and no delta was applied
C16_Witness ==
  /\ poller.pc = "wait"
  /\ poller.hr = <<"DIERR_INPUTLOST", 0>>
  /\ ui.scheduled = 2
  /\ joydx_joystick[0].gotten
  /\ ~dinput[0].acquired
  /\ nMut[0] = 0
  /\ es[0].owner = "none"

\* C17: a drain that returns no delta returns without taking the
\* event-source lock, changes no snapshot value and emits no event.
C17_EmptyDrainDoesNothing ==
  [][(DrainAnswers({"DI_OK", "DI_BUFFEROVERFLOW"}) /\ dinput[poller.num].buffer = <<>>)
       => (ReturnsUntouched /\ ui' = ui)]_vars

\* a polled hat switch, gotten and acquired, woke the thread on its timer
\* and the drain found nothing
C17_Witness ==
  /\ poller.pc = "wait"
  /\ poller.hr = <<"DI_OK", 0>>
  /\ dinput[0].polled /\ dinput[0].acquired /\ dinput[0].buffer = <<>>
  /\ joydx_thread_wakers[JOYSTICK_WAKER(0)].h = "timer"
  /\ joydx_joystick[0].gotten
  /\ joydx_joystick[0].joystate = ZeroJoystate
  /\ nMut[0] = 0
  /\ es[0].owner = "none"

(* --------------------- events that cannot be delivered ---------------- *)

\* this step is update_joystick dispatching one delta
DispatchStep ==
  poller.pc = "dispatch" /\ poller'.pc = "dispatch" /\ poller'.i = poller.i + 1

\* the snapshot the delta of the step leads to when every event type is
\* wanted and every request for an unused event is served
SnapshotIfDelivered ==
  DispatchItem(Ctx(joydx_joystick[poller.num], AL_ALL_JOYSTICK_EVENTS, <<TRUE, TRUE>>),
               poller.buffer[poller.i + 1]).joy.joystate

\* no event of the step could be delivered: nobody subscribed, or the
\* event source served none of the requests for an unused event
Undeliverable ==
  \/ es[poller.num].wants = {}
  \/ \A k \in DOMAIN AskedSlots : ~AskedSlots[k]

\* C18: when no subscriber wants the event or the event source has no
\* unused event, the delta is applied to the snapshot all the same and no
\* event is emitted; the snapshot does not depend on whether events could
\* be delivered.
C18_SnapshotIndependentOfDelivery ==
  [][DispatchStep =>
       /\ joydx_joystick'[poller.num].joystate = SnapshotIfDelivered
       /\ Undeliverable => NewEvents = <<>>]_vars

\* on the pad, subscribed to, the delta (X, +32767) found no unused event:
\* axis (0, 0) holds 1.0 and no event was emitted
C18_Witness ==
  /\ poller.pc = "dispatch" /\ poller.i = 1
  /\ joydx_joystick[poller.num].caps_and_names = PadCaps
  /\ poller.buffer[1] = Item(DIJOFS_X, AXIS_RANGE)
  /\ es[poller.num].wants = AL_ALL_JOYSTICK_EVENTS
  /\ poller.slots = <<(<<FALSE>>)>>
  /\ poller.out = <<>>
  /\ StickAxis(joydx_joystick[poller.num].joystate, 0, 0) = Float(AXIS_RANGE, AXIS_RANGE)

(* ------------------------------ get_joystick -------------------------- *)

\* this step is the critical section of joydx_get_joystick
GetStep == main.pc = "get" /\ main'.pc = "idle"

\* C19: joydx_get_joystick on a device that is already gotten leaves the
\* gotten flag, the event source (it is not initialised again) and the
\* snapshot as they are; on a device that is not gotten it sets gotten and
\* initialises the event source, both inside one critical section of
\* joydx_thread_cs.
C19_GetOfGottenChangesNothing ==
  [][GetStep =>
       IF joydx_joystick[main.j].gotten
       THEN es' = es /\ joydx_joystick' = joydx_joystick
       ELSE /\ joydx_thread_cs.owner = "main"
            /\ joydx_joystick'[main.j].gotten
            /\ es'[main.j] = [live |-> TRUE, owner |-> "none", wants |-> {}]
            /\ joydx_joystick'[main.j].joystate = joydx_joystick[main.j].joystate]_vars

(* --------------------------- the frozen schema ------------------------ *)

\* what enumeration has fixed for a joystick: the objects found, the
\* logical sticks, axes and buttons, and the mapping tables
SchemaOf(joy) ==
  <<joy.caps_and_names, joy.info, joy.mapping, joy.slider_mapping, joy.pov_mapping_stick>>

\* joydx_init has returned true and joydx_exit has not joined the thread yet
DriverUp == joydx_thread = "handle"

\* C20: between a successful joydx_init and joydx_exit no step of the
\* joystick thread, of the primary thread's operations or of the window
\* thread changes joydx_num_joysticks, a joystick's schema or a mapping
\* table, and joydx_get_num_joysticks returns the number enumerated by
\* joydx_init every time.
C20_SchemaFrozenWhileRunning ==
  /\ []((DriverUp /\ Len(main.ret) = 1) => main.ret[1] = Len(GoodOnes(main.reported)))
  /\ [][(DriverUp /\ DriverUp') =>
          /\ joydx_num_joysticks' = joydx_num_joysticks
          /\ DOMAIN joydx_joystick' = DOMAIN joydx_joystick
          /\ \A n \in Slots : SchemaOf(joydx_joystick'[n]) = SchemaOf(joydx_joystick[n])]_vars

\* the pad was taken, two deltas were applied, the joystick was released,
\* the window lost the focus and joydx_get_num_joysticks returned 1: the
\* pad's layout is as enumerated
C20_Witness ==
  /\ DriverUp
  /\ main.pc = "idle" /\ main.ret = <<1>>
  /\ nMut[0] = 2
  /\ ~joydx_joystick[0].gotten
  /\ ~dinput[0].acquired
  /\ joydx_joystick[0].caps_and_names = PadCaps
  /\ joydx_joystick[0].mapping["y"] = AxisMapping(0, 1)
  /\ joydx_joystick[0].pov_mapping_stick[0] = 1
  /\ joydx_joystick[0].info.num_sticks = 2

(* --------------------- more controllers than slots -------------------- *)

\* the largest number of controllers the backend reports in one enumeration
MaxAttached == 9

\* the controllers a crowded system reports: pads and polled hat switches
\* on which no step of the callback fails
ManyControllers == {Controller(PadCaps, FALSE, "none"), Controller(HatCaps, TRUE, "none")}

\* every list of at most MaxAttached such controllers
ManyScenarios == UNION {[1..n -> ManyControllers] : n \in 0..MaxAttached}

\* one enumeration of a crowded system
NextMany ==
  \E attached \in ManyScenarios, granted \in BOOLEAN : joydx_init(attached, "ok", granted)

SpecMany == Init /\ [][NextMany]_vars

(* ---------------------------------- C21 ------------------------------- *)

\* the slots joydx_joystick[MAX_JOYSTICKS] has
TableSlots == 0..(MAX_JOYSTICKS - 1)

\* the elements joydx_thread_wakers[1+MAX_JOYSTICKS] has
WakerSlots == 0..MAX_JOYSTICKS

\* C21: whatever number of controllers the backend reports, the device count
\* after joydx_init is at most MAX_JOYSTICKS, and no device record and no
\* wake handle is written outside joydx_joystick[0..7] and
\* joydx_thread_wakers[0..8].
C21_CountAndTablesWithinBounds ==
  /\ joydx_num_joysticks <= MAX_JOYSTICKS
  /\ Slots \subseteq TableSlots
  /\ DOMAIN dinput \subseteq TableSlots
  /\ DOMAIN joydx_thread_wakers \subseteq WakerSlots

(* --------------------------- two devices at work ---------------------- *)

\* two controllers: a polled hat switch before or after a pad, or two pads
PairScenarios ==
  {<<Controller(HatCaps, TRUE, "none"), Controller(PadCaps, FALSE, "none")>>,
   <<Controller(PadCaps, FALSE, "none"), Controller(HatCaps, TRUE, "none")>>,
   <<Controller(PadCaps, FALSE, "none"), Controller(PadCaps, FALSE, "none")>>}

\* the deltas the two devices produce
PairItems == {Item(DIJOFS_POV(0), JOY_POVRIGHT), Item(DIJOFS_BUTTON(0), 128)}

\* bound on the deltas of one run of SpecPair
MaxPairDeltas == 2

\* The driver is started on two controllers, the program gets them, the
\* hardware produces deltas and the timers of polled devices keep ticking.
NextPair ==
  \/ \E attached \in PairScenarios : joydx_init(attached, "ok", TRUE)
  \/ \E num \in Slots : ~joydx_joystick[num].gotten /\ joydx_get_joystick_enter(num)
  \/ joydx_get_joystick_body
  \/ joydx_thread_proc_wait
  \/ joydx_thread_proc_enter
  \/ \E hr \in {"DI_OK", "DI_BUFFEROVERFLOW", "DIERR_OTHER"} : update_joystick_drain(hr)
  \/ update_joystick_lock
  \/ \E slots \in Slots2 : update_joystick_dispatch(slots)
  \/ update_joystick_unlock
  \/ \E num \in Slots, item \in PairItems : nDeltas < MaxPairDeltas /\ HidDelta(num, item)
  \/ \E num \in Slots : TimerTick(num)

SpecPair == Init /\ [][NextPair]_vars

\* the scheduler lets the joystick thread take its next step when it can,
\* and lets the primary thread leave the critical section it entered
FairPair == SpecPair /\ WF_vars(PollerStep) /\ WF_vars(joydx_get_joystick_body)

(* ---------------------------------- C22 ------------------------------- *)

\* the wake handle of device n is signaled
Pending(n) ==
  /\ JOYSTICK_WAKER(n) \in DOMAIN joydx_thread_wakers
  /\ n < joydx_num_joysticks
  /\ joydx_thread_wakers[JOYSTICK_WAKER(n)].signaled

\* WaitForMultipleObjects has returned for device n
Served(n) == poller.pc = "woken" /\ poller.num = n

\* a step in which the wait returns for a device serves the lowest-indexed
\* signaled one and leaves the signal of every other device as it was
WaitServesLowest ==
  (poller.pc = "wait" /\ poller'.pc = "woken") =>
     \A n \in 0..(joydx_num_joysticks - 1) :
        Pending(n) =>
          /\ poller'.num <= n
          /\ n # poller'.num => joydx_thread_wakers'[JOYSTICK_WAKER(n)].signaled

\* the wake handle of a device below n goes from unsignaled to signaled
LowerSignaledAgain(n) ==
  \E m \in 0..(n - 1) :
     /\ JOYSTICK_WAKER(m) \in DOMAIN joydx_thread_wakers
     /\ ~joydx_thread_wakers[JOYSTICK_WAKER(m)].signaled
     /\ joydx_thread_wakers'[JOYSTICK_WAKER(m)].signaled

\* C22: of several signaled devices the joystick thread serves the
\* lowest-indexed one first, the signals of the others stay pending, and
\* every signaled device is eventually served, also when lower-indexed
\* devices keep being signaled again.
C22_EverySignaledDeviceServed ==
  /\ [][WaitServesLowest]_vars
  /\ \A n \in 0..1 : Pending(n) ~> Served(n)

\* C22, amended: of several signaled devices the joystick thread serves the
\* lowest-indexed one first and the signals of the others stay pending; a
\* signaled device is eventually served if from some time on no
\* lower-indexed device's handle is signaled again.
C22_ServedOnceLowerDevicesAreQuiet ==
  /\ [][WaitServesLowest]_vars
  /\ \A n \in 0..1 : (<>[][~LowerSignaledAgain(n)]_vars) => (Pending(n) ~> Served(n))

\* device 0 is being served while the signal of device 1 is pending
C22_Witness ==
  /\ Served(0)
  /\ Pending(1)
  /\ joydx_joystick[0].gotten
  /\ joydx_joystick[1].gotten

(* ---------------------------------- C23 ------------------------------- *)

\* the wake handle of device n goes from unsignaled to signaled
Rises(n) ==
  /\ JOYSTICK_WAKER(n) \in DOMAIN joydx_thread_wakers
  /\ JOYSTICK_WAKER(n) \in DOMAIN joydx_thread_wakers'
  /\ ~joydx_thread_wakers[JOYSTICK_WAKER(n)].signaled
  /\ joydx_thread_wakers'[JOYSTICK_WAKER(n)].signaled

\* the step puts a delta into the buffer of device n, or finds it full
DeltaArrives(n) ==
  \/ Len(dinput'[n].buffer) = Len(dinput[n].buffer) + 1
  \/ Len(dinput[n].buffer) = DEVICE_BUFFER_SIZE /\ dinput'[n].overflow

\* C23: every wake-up of the joystick thread on the handle of an
\* event-driven device is followed by a drain that finds at least one
\* delta: GetDeviceData never answers with zero items for such a device.
C23_EventWakeFindsDelta ==
  [][(/\ DrainAnswers({"DI_OK", "DI_BUFFEROVERFLOW"})
      /\ joydx_thread_wakers[JOYSTICK_WAKER(poller.num)].h = "event")
       => dinput[poller.num].buffer # <<>>]_vars

\* C23, amended: the handle of an event-driven device is signaled only by
\* the arrival of a delta for that device, the handle of a polled device
\* only by its timer, and the wait that returns for a device resets its
\* handle; the delta that signaled may have been read by an earlier drain.
C23_EverySignalHasItsCause ==
  [][/\ \A n \in Slots :
          Rises(n) =>
            IF joydx_thread_wakers[JOYSTICK_WAKER(n)].h = "event"
            THEN DeltaArrives(n)
            ELSE joydx_thread_wakers[JOYSTICK_WAKER(n)].h = "timer" /\ dinput' = dinput
     /\ (poller.pc = "wait" /\ poller'.pc = "woken") =>
          ~joydx_thread_wakers'[JOYSTICK_WAKER(poller'.num)].signaled]_vars

\* the event of a gotten, acquired, event-driven pad woke the thread, which
\* is about to drain an empty buffer: every delta the pad produced was
\* applied by the drain before
C23_Witness ==
  /\ poller.pc = "in_cs" /\ poller.num = 0
  /\ joydx_thread_wakers[JOYSTICK_WAKER(0)].h = "event"
  /\ ~joydx_thread_wakers[JOYSTICK_WAKER(0)].signaled
  /\ joydx_joystick[0].gotten
  /\ dinput[0].acquired /\ dinput[0].buffer = <<>> /\ ~dinput[0].overflow
  /\ nDeltas >= 2
  /\ nMut[0] = nDeltas
  /\ committed[0] = joydx_joystick[0].joystate

(* ------------------------ offsets around the buttons ------------------ *)

\* a gamepad with as many buttons as object_enum_callback records
FullCaps == Caps({"x", "y"}, 0, 0, MAX_BUTTONS)

\* an event-driven hat switch (no button), the pad (two buttons) and the
\* gamepad (MAX_BUTTONS buttons)
BoundsScenarios ==
  {<<Controller(HatCaps, FALSE, "none")>>, <<Controller(PadCaps, FALSE, "none")>>,
   <<Controller(FullCaps, FALSE, "none")>>}

\* Deltas around the ends of the button range: the first and the last
\* button of each device, the offsets right after them, the byte before
\* rgbButtons, the first byte after DIJOYSTATE, and a dwOfs that is
\* negative as an int.
BoundsItems ==
  {Item(DIJOFS_BUTTON(b), 128) : b \in {-1, 0, 1, 2, MAX_BUTTONS - 1, MAX_BUTTONS}}
    \cup {Item(DIJOFS_BUTTON(0), 0), Item(-1, 128)}

\* bound on the deltas of one run of SpecBounds
MaxBoundsDeltas == 2

NextBounds == DataNext(BoundsScenarios, BoundsItems, MaxBoundsDeltas)

SpecBounds == Init /\ [][NextBounds]_vars

(* ---------------------------------- C24 ------------------------------- *)

\* the button indices of a device
ButtonIndices(joy) == 0..(joy.info.num_buttons - 1)

\* the raw offset lies in rgbButtons at an index the device has
NamesButtonOf(joy, dwOfs) ==
  \E b \in ButtonIndices(joy) : dwOfs = DIJOFS_BUTTON0 + b

\* the raw offset is one of the axis, slider or hat fields of DIJOYSTATE
NamesAxisField(dwOfs) == dwOfs \in {4 * k : k \in 0..11}

\* C24: whatever raw offset a drained delta carries, the step that
\* dispatches it writes no joystate.button[] entry and emits no button
\* event with an index outside [0, num_buttons); a delta whose offset is
\* neither an axis, slider or hat field nor a button of the device (a
\* device without buttons, an offset past the last button, before
\* rgbButtons or negative) changes nothing and emits nothing.
C24_ButtonIndicesInBounds ==
  [][DispatchStep =>
       LET joy == joydx_joystick[poller.num]
           item == poller.buffer[poller.i + 1]
       IN /\ DOMAIN joydx_joystick'[poller.num].joystate.button \subseteq ButtonIndices(joy)
          /\ \A k \in DOMAIN NewEvents :
               NewEvents[k].type \in {AL_EVENT_JOYSTICK_BUTTON_DOWN, AL_EVENT_JOYSTICK_BUTTON_UP}
                 => NewEvents[k].button \in ButtonIndices(joy)
          /\ (~NamesButtonOf(joy, item.dwOfs) /\ ~NamesAxisField(item.dwOfs))
               => (joydx_joystick'[poller.num] = joy /\ NewEvents = <<>>)]_vars

\* the pad, subscribed to, got a press of its last button and then a
\* press at the offset after it: the first is stored and reported, the
\* second left no trace
C24_Witness ==
  /\ poller.pc = "dispatch"
  /\ poller.i = 2
  /\ poller.buffer = <<Item(DIJOFS_BUTTON(1), 128), Item(DIJOFS_BUTTON(2), 128)>>
  /\ joydx_joystick[poller.num].info.num_buttons = 2
  /\ joydx_joystick[poller.num].joystate.button = (1 :> BUTTON_DOWN_VALUE)
  /\ es[poller.num].wants = AL_ALL_JOYSTICK_EVENTS
  /\ poller.slots = <<<<TRUE>>, <<>>>>
  /\ Len(poller.out) = 1
  /\ poller.out[1].button = 1

(* ---------------------------------- C25 ------------------------------- *)

\* the hat a raw offset names, or -1
HatAt(ofs) ==
  IF \E k \in 0..(MAX_POVS - 1) : ofs = DIJOFS_POV(k)
  THEN CHOOSE k \in 0..(MAX_POVS - 1) : ofs = DIJOFS_POV(k)
  ELSE -1

\* the raw offset names an axis, slider or hat the capability map lacks
NamesAbsentObject(caps, ofs) ==
  \/ AxisObjectAt(ofs).kind # "other" /\ ~ObjectPresent(caps, AxisObjectAt(ofs))
  \/ HatAt(ofs) >= caps.num_povs

\* the stick the schema builds from hat k: the hats follow the (X, Y, Z)
\* stick, the (RX, RY, RZ) stick and the slider sticks
HatStickOf(caps, k) == B(HasXyz(caps)) + B(HasR(caps)) + caps.num_sliders + k

\* the (stick, axis) entries of the snapshot the step changes
ChangedAxes ==
  {sa \in (0..(AL_MAX_JOYSTICK_STICKS - 1)) \X (0..2) :
     StickAxis(joydx_joystick'[poller.num].joystate, sa[1], sa[2])
       # StickAxis(joydx_joystick[poller.num].joystate, sa[1], sa[2])}

\* C25: a dispatched delta whose offset names an axis, slider or hat the
\* device lacks changes nothing of the snapshot and emits no event, and a
\* hat delta writes only the two axes of the stick built from that hat.
C25_AbsentObjectDeltaIgnored ==
  [][DispatchStep =>
       LET joy == joydx_joystick[poller.num]
           caps == joy.caps_and_names
           ofs == poller.buffer[poller.i + 1].dwOfs
       IN /\ NamesAbsentObject(caps, ofs) =>
               (joydx_joystick'[poller.num].joystate = joy.joystate /\ NewEvents = <<>>)
          /\ HatAt(ofs) >= 0 =>
               /\ HatAt(ofs) < caps.num_povs
               /\ \A sa \in ChangedAxes :
                    /\ sa[1] = HatStickOf(caps, HatAt(ofs))
                    /\ sa[2] < joy.info.num_axes[sa[1]]]_vars

(* ---------------------------------- C26 ------------------------------- *)

\* this step is the window thread running a scheduled
\* _al_win_joystick_dinput_acquire
ScheduledAcquireStep == ui'.scheduled = ui.scheduled - 1

\* the device pointers the loop of _al_win_joystick_dinput_acquire passes
\* to IDirectInputDevice2_Acquire
DevicesUsedByAcquire ==
  IF joystick_dinput # "NULL"
  THEN {s \in Slots : s < joydx_num_joysticks}
  ELSE {}

\* C26: a re-acquire that update_joystick scheduled for the window thread
\* never calls Acquire on a device that joydx_exit has released: every
\* device the call uses is open.
C26_ScheduledAcquireUsesOpenDevices ==
  [][ScheduledAcquireStep => \A s \in DevicesUsedByAcquire : dinput[s].dev = "open"]_vars

(* ---------------------------------- C27 ------------------------------- *)

\* Who holds which lock, and where: the joystick thread holds an
\* event-source lock only inside the critical section; the primary thread
\* holds one only inside joydx_get_state, where it does not hold the
\* critical section; the critical section is held only inside
\* joydx_get_joystick, joydx_release_joystick and the joystick thread's
\* update.
LockOrder ==
  /\ \A j \in DOMAIN es :
       /\ es[j].owner = "poller" =>
            joydx_thread_cs.owner = "poller" /\ poller.pc = "dispatch" /\ poller.num = j
       /\ es[j].owner = "main" =>
            /\ main.pc \in {"state_copy", "state_unlock"} /\ main.j = j
            /\ joydx_thread_cs.owner # "main"
  /\ joydx_thread_cs.owner = "main" => main.pc \in {"get", "release"}
  /\ joydx_thread_cs.owner = "poller" => poller.pc \in {"in_cs", "lock_es", "dispatch"}

\* Whenever a thread waits for a lock, or a lock is held, the holder can
\* take a step (or is itself waiting for a holder that can): nobody waits
\* for a thread that waits for it.
HolderCanRun ==
  /\ (poller.pc = "woken" /\ ~CsFree) =>
       ENABLED (joydx_get_joystick_body \/ joydx_release_joystick_body)
  /\ (poller.pc = "lock_es" /\ ~EsLockFree(poller.num)) =>
       ENABLED (joydx_get_state_copy \/ joydx_get_state_unlock)
  /\ (main.pc = "state_lock" /\ ~EsLockFree(main.j)) =>
       ENABLED ((\E slots \in Slots2 : update_joystick_dispatch(slots)) \/ update_joystick_unlock)
  /\ joydx_thread_cs.owner = "poller" =>
       ENABLED (PollerStep \/ UiStep \/ joydx_get_state_copy \/ joydx_get_state_unlock)

\* C27: the critical section of the driver is taken before an
\* event-source lock and never while holding one, and in no reachable
\* state of the primary thread, the joystick thread and the window thread
\* do threads wait for each other's locks.
C27_NoDeadlock == LockOrder /\ HolderCanRun

\* the joystick thread, inside the critical section, waits for the
\* event-source lock while joydx_get_state holds it on the primary thread
C27_Witness ==
  /\ poller.pc = "lock_es"
  /\ joydx_thread_cs.owner = "poller"
  /\ es[poller.num].owner = "main"
  /\ main.pc = "state_copy"

(* ---------------------------------- C28 ------------------------------- *)

\* this step is a call of joydx_init (one that leaves a trace in the state)
InitCall ==
  /\ main.pc = "idle" /\ joydx_thread = "NULL"
  /\ \/ main' # main
     \/ joystick_dinput' # joystick_dinput
     \/ joydx_thread' # joydx_thread

\* ASSERT(!joystick_dinput); ASSERT(!joydx_num_joysticks);
\* ASSERT(!joydx_thread); ASSERT(!STOP_EVENT);
InitEntryAssertions ==
  /\ joystick_dinput = "NULL"
  /\ joydx_num_joysticks = 0
  /\ joydx_thread = "NULL"
  /\ joydx_thread_wakers[STOP_EVENT].h = "NULL"

\* C28: when joydx_init is called only on a driver that is not running
\* (never started, after a joydx_init that returned false, after
\* joydx_exit), its four entry assertions hold at every call.
C28_InitEntryAssertionsHold == [][InitCall => InitEntryAssertions]_vars

(* ---------------------------------- C29 ------------------------------- *)

\* the enumeration states in which joystick_enum_callback is entered when
\* EnumDevices calls back for `attached`, one after the other
RECURSIVE EntryStates(_, _)
EntryStates(st, attached) ==
  IF attached = <<>>
  THEN <<>>
  ELSE <<st>> \o EntryStates(joystick_enum_callback(st, Head(attached)), Tail(attached))

\* ASSERT(joydx_num_joysticks > 0 && joydx_num_joysticks < MAX_JOYSTICKS-1);
\* ASSERT(!JOYSTICK_WAKER(joydx_num_joysticks));
CallbackEntryAssertions(st) ==
  /\ st.num > 0 /\ st.num < MAX_JOYSTICKS - 1
  /\ Get(st.wakers, JOYSTICK_WAKER(st.num), NullHandle).h = "NULL"

\* C29: at every invocation of joystick_enum_callback during joydx_init
\* its two entry assertions hold.
C29_CallbackEntryAssertionsHold ==
  [][InitCall =>
       LET entries == EntryStates(EnumState(joydx_num_joysticks, joydx_joystick,
                                            joydx_thread_wakers, dinput, es),
                                  main'.reported)
       IN \A k \in DOMAIN entries : CallbackEntryAssertions(entries[k])]_vars

====
